---- MODULE Spec2Model ----
(***************************************************************************)
(* DevConnect backend: presence tracking, the Socket.IO connection         *)
(* gateway, the Redis pub/sub backplane, notification fan-out, the post    *)
(* service with its cache-aside layer, and the chat service.               *)
(*                                                                         *)
(* Every `await` of the TypeScript source is an interleaving point: an     *)
(* async function is a small process whose position is kept in a "pc"      *)
(* field, and one action models the code between two awaits.               *)
(***************************************************************************)
EXTENDS Integers, Sequences, FiniteSets, TLC

(***************************************************************************)
(* Universe of the model                                                   *)
(***************************************************************************)
Users == {"u1", "u2"}
Sockets == {"s1", "s2", "s3"}
Instances == {"A", "B"}

\* The server instance that holds each connection.
SockInst == [s \in Sockets |-> IF s = "s3" THEN "B" ELSE "A"]

\* Longest per-instance subscriber backlog the model follows, per specification.
MaxPresenceQueue == 1
\* Most presence-service calls the model follows in flight at once.
MaxCalls == 2

Undefined == "undefined"

VARIABLES
  redisUp,       \* the Redis client used by presence and the cache is reachable
  busUp,         \* the Redis publisher connection is reachable
  mongoUp,       \* the MongoDB connection is reachable
  presence,      \* Redis keys presence:user:<id>  (value, or NoRec once expired)
  onlineSet,     \* Redis set presence:online
  sock,          \* per connection: state, userId, rooms, handler position
  pcall,         \* running presence-service calls, per connection and origin
  lastStarted,   \* per user: kind of the setUserOnline/Offline call started last
  lastCompleted, \* per user: kind of the call completed last, "failed" once one threw
  offlineCalled, \* per connection: its disconnect listener invoked setUserOffline
  lastAck,       \* the latest acknowledgement callback: connection, event, outcome
  subscribed,    \* per instance: channels its subscriber is subscribed to
  busQ,          \* per instance: messages received by its subscriber, not yet handled
  lastEmit,      \* the latest io.emit / io.to(room).emit: instance, event, data, receivers
  traceEmits,    \* whether this specification follows the emissions
  chats,         \* Chat collection, in creation order; _id is the position
  messages,      \* Message collection, in creation order; _id is the position
  ccall,         \* running chat-service calls, per caller
  notifications, \* Notification collection, in creation order; _id is the position
  ncall,         \* running notification chains, per caller
  posts,         \* Post collection, in creation order; _id is the position
  comments,      \* Comment collection, in creation order; _id is the position
  cache,         \* Redis cache: key -> cached value, for the keys that exist
  preq,          \* running PostService calls, per caller
  readPhase,     \* per cached list: read, then written, then read again
  postCalls,     \* number of PostService calls made so far
  pager,         \* a client fetching the pages of a list one after the other
  accounts,      \* User collection, in creation order; _id is the position
  clock,         \* the wall clock, in whole seconds
  acall,         \* running AuthService calls, per caller
  rotated,       \* refresh tokens a refreshToken call has replaced
  issues,        \* Issue collection, in creation order; _id is the position
  icall,         \* running IssueService calls, per caller
  sweep,         \* the running cleanupStalePresence call
  server,        \* per instance: the server process and its Redis connections
  lastPublish,   \* the latest publishMessage call: channel and outcome
  lastHandled    \* the latest subscriber callback: message and handler invocations

envVars == <<redisUp, busUp, mongoUp>>
presenceVars == <<presence, onlineSet, pcall, lastStarted, lastCompleted>>
gatewayVars == <<sock, offlineCalled, lastAck>>
busVars == <<subscribed, busQ, lastEmit, traceEmits>>
chatVars == <<chats, messages, ccall>>
notifVars == <<notifications, ncall>>
postVars == <<posts, comments, cache, preq, readPhase, postCalls, pager>>
authVars == <<accounts, clock, acall, rotated>>
opsVars == <<issues, icall, sweep, server, lastPublish, lastHandled>>
storeVars == <<chatVars, notifVars, postVars, authVars, opsVars>>
vars == <<envVars, presenceVars, gatewayVars, busVars, storeVars>>

(***************************************************************************)
(* Room and channel names                                                  *)
(***************************************************************************)
UserRoom(u) == "user:" \o u
NotificationRoom(u) == "notifications:" \o u
ChatRoom(c) == "chat:" \o ToString(c)

BroadcastChannel == "socket:broadcast"
RoomChannel == "socket:room"
UserChannel == "socket:user"
Channels == {BroadcastChannel, RoomChannel, UserChannel}

(***************************************************************************)
(* JSON on the bus.  A PubSubMessage is a record whose optional string     *)
(* members room and userId are Undefined when absent; JSON.stringify drops *)
(* those, JSON.parse of a malformed string throws.  event is a string and  *)
(* data an object at every call site.                                      *)
(***************************************************************************)
Malformed == [malformed |-> TRUE]

\* The string "null": JSON.parse returns null, which has no members to read.
JSONNull == [null |-> TRUE]

PubSubMessage(event, data, room, userId) ==
  [event |-> event, data |-> data, room |-> room, userId |-> userId]

JSONStringify(m) ==
  [f \in {g \in DOMAIN m : g \in {"event", "data"} \/ m[g] # Undefined} |-> m[f]]

JSONParses(str) == "malformed" \notin DOMAIN str

Member(obj, f) == IF f \in DOMAIN obj THEN obj[f] ELSE Undefined

\* JavaScript truthiness of an optional string member.
Falsy(v) == v = Undefined \/ v = ""

(***************************************************************************)
(* socket.io: io.to(room).emit and io.emit reach the connections held by   *)
(* this server instance only (no cross-instance adapter is configured).    *)
(***************************************************************************)
LocalSockets(i) == {s \in Sockets : SockInst[s] = i /\ sock[s].state = "connected"}

InRoom(i, room) == {s \in LocalSockets(i) : room \in sock[s].rooms}

NoEmit == [inst |-> "none", event |-> "none", data |-> [none |-> TRUE], targets |-> {}]

\* One emit call on instance i, received by the connections in targets.
Emit(i, targets, event, data) ==
  IF traceEmits
  THEN [inst |-> i, event |-> event, data |-> data, targets |-> targets]
  ELSE lastEmit

NoAck == [sock |-> "none", event |-> "none", error |-> "", val |-> 0]

\* callback({ success: true, ... }) when error is "", callback({ error }) otherwise.
Ack(s, event, error, val) ==
  IF traceEmits
  THEN [sock |-> s, event |-> event, error |-> error, val |-> val]
  ELSE lastAck

(***************************************************************************)
(* pubsub: publishMessage and the three emit...AcrossInstances helpers     *)
(***************************************************************************)
\* Redis PUBLISH: every instance subscribed to the channel receives the string.
BusAfterPublish(channel, str) ==
  [i \in Instances |->
     IF channel \in subscribed[i]
     THEN Append(busQ[i], [channel |-> channel, payload |-> str])
     ELSE busQ[i]]

BusBelow(n) == \A i \in Instances : Len(busQ[i]) < n

\* publishMessage: resolves after the bus took the message, throws otherwise.
publishMessage(channel, message) ==
  IF busUp THEN BusAfterPublish(channel, JSONStringify(message)) ELSE busQ

\* emitToUserAcrossInstances: the publish error is caught and logged.
emitToUserAcrossInstances(userId, event, data) ==
  publishMessage(UserChannel, PubSubMessage(event, data, Undefined, userId))

\* emitToRoomAcrossInstances: the publish error is caught and logged.
emitToRoomAcrossInstances(room, event, data) ==
  publishMessage(RoomChannel, PubSubMessage(event, data, room, Undefined))

\* broadcastEvent
broadcastEvent(event, data) ==
  publishMessage(BroadcastChannel, PubSubMessage(event, data, Undefined, Undefined))

\* The handlers initializePubSub registers: whether the handler of the channel
\* reaches its emit call (the room and user handlers return early on a message
\* without room / userId), and the connections that emit call reaches.
HandlerEmits(channel, message) ==
  CASE channel = BroadcastChannel -> TRUE
    [] channel = RoomChannel -> ~Falsy(Member(message, "room"))
    [] channel = UserChannel -> ~Falsy(Member(message, "userId"))
    [] OTHER -> FALSE

\* A faulty variant of ChannelTargets: every handler emits to all local connections.
ChannelTargetsAll(i, channel, message) == LocalSockets(i)

ChannelTargets(i, channel, message) ==
  CASE channel = BroadcastChannel -> LocalSockets(i)
    [] channel = RoomChannel -> InRoom(i, Member(message, "room"))
    [] channel = UserChannel -> InRoom(i, UserRoom(Member(message, "userId")))
    [] OTHER -> {}

\* No callback recorded.  Callbacks are recorded in the specifications that
\* start from HandledNone, and left out of the state in the others.
NoHandled == [trace |-> FALSE, n |-> 0, inst |-> "none", channel |-> "none",
              payload |-> [none |-> TRUE], invoked |-> 0]
HandledNone == [NoHandled EXCEPT !.trace = TRUE]

\* The subscriber callback ran on instance i for message m and invoked the
\* handler of the channel n times.
Handled(i, m, n) ==
  IF lastHandled.trace
  THEN [trace |-> TRUE, n |-> 1 - lastHandled.n, inst |-> i, channel |-> m.channel,
        payload |-> m.payload, invoked |-> n]
  ELSE lastHandled

\* A faulty variant of HandlerInvocations: the handler is called with whatever
\* was received, parsed or not.
HandlerInvocationsUnparsed(str) == 1

\* How often the callback of subscribeToChannel calls handler(message): once
\* after JSON.parse returned and message.event was read for the debug log, not
\* at all when either threw.
HandlerInvocations(str) == IF JSONParses(str) /\ str # JSONNull THEN 1 ELSE 0

\* The subscriber callback of subscribeToChannel on instance i for the oldest
\* pending message: parse, call the handler; a parse failure is logged and dropped.
Deliver(i) ==
  /\ busQ[i] # <<>>
  /\ LET m == Head(busQ[i])
     IN /\ busQ' = [busQ EXCEPT ![i] = Tail(busQ[i])]
        /\ lastHandled' = Handled(i, m, HandlerInvocations(m.payload))
        /\ lastEmit' =
             IF HandlerInvocations(m.payload) = 1 /\ HandlerEmits(m.channel, m.payload)
             THEN Emit(i, ChannelTargets(i, m.channel, m.payload),
                       Member(m.payload, "event"), Member(m.payload, "data"))
             ELSE lastEmit
  /\ UNCHANGED <<envVars, presenceVars, gatewayVars, subscribed, traceEmits, chatVars,
                 notifVars, postVars, authVars, issues, icall, sweep, server, lastPublish>>

(***************************************************************************)
(* Presence service                                                        *)
(***************************************************************************)
NoRec == [status |-> "none", socketId |-> Undefined]
Idle == [kind |-> "none", pc |-> "idle", snap |-> NoRec]
Roles == {"connect", "disconnect", "event"}

Active(s, r) == pcall[s][r].pc # "idle"

\* A call returned or threw: remember which call completed last for the user,
\* or "failed" from the first call for the user that threw.  The 'user_online'
\* and 'user_offline' listeners then acknowledge to the client.
Complete(s, r, ok) ==
  /\ pcall' = [pcall EXCEPT ![s][r] = Idle]
  /\ lastCompleted' =
       IF pcall[s][r].kind \in {"online", "offline"}
       THEN [lastCompleted EXCEPT ![sock[s].user] =
               IF ok /\ @ # "failed" THEN pcall[s][r].kind ELSE "failed"]
       ELSE lastCompleted
  /\ lastAck' =
       IF r = "event" /\ pcall[s][r].kind \in {"online", "offline"}
       THEN Ack(s, "user_" \o pcall[s][r].kind, IF ok THEN "" ELSE "RedisError", 0)
       ELSE lastAck

\* The connection handler resumes after `await setUserOnline` (its error is
\* caught): registerChatHandlers, registerNotificationHandlers and the
\* heartbeat, disconnect and error listeners are registered in one turn.
ResumeHandler(s, r) ==
  IF r = "connect"
  THEN [sock EXCEPT ![s].hpc = "ready",
                    ![s].rooms = IF sock[s].state = "connected"
                                 THEN @ \cup {NotificationRoom(sock[s].user)}
                                 ELSE @]
  ELSE sock

\* setUserOnline / setUserOffline, first await: redis.setEx(presenceKey, TTL, data)
PresenceSetEx(s, r) ==
  /\ pcall[s][r].pc = "setEx"
  /\ LET u == sock[s].user
         k == pcall[s][r].kind
     IN IF redisUp
        THEN /\ presence' = [presence EXCEPT ![u] =
                   [status |-> k,
                    socketId |-> IF k = "online" THEN s ELSE Undefined]]
             /\ pcall' = [pcall EXCEPT ![s][r].pc = "sMember"]
             /\ UNCHANGED <<lastCompleted, lastAck, sock>>
        ELSE /\ Complete(s, r, FALSE)
             /\ sock' = ResumeHandler(s, r)
             /\ UNCHANGED presence
  /\ UNCHANGED <<envVars, onlineSet, lastStarted, offlineCalled, busVars, storeVars>>

\* A faulty variant of OnlineSetAfter: setUserOffline keeps the user in the set
\* while another connection of the user is open.
OnlineSetAfterCountingConnections(kind, u) ==
  IF kind = "online" THEN onlineSet \cup {u}
  ELSE IF \E t \in DOMAIN sock : sock[t].state = "connected" /\ sock[t].user = u
  THEN onlineSet
  ELSE onlineSet \ {u}

\* redis.sAdd(ONLINE_USERS_SET, userId) of setUserOnline and
\* redis.sRem(ONLINE_USERS_SET, userId) of setUserOffline.
OnlineSetAfter(kind, u) ==
  IF kind = "online" THEN onlineSet \cup {u} ELSE onlineSet \ {u}

\* second await: redis.sAdd / redis.sRem on the online set
PresenceSetMember(s, r) ==
  /\ pcall[s][r].pc = "sMember"
  /\ LET u == sock[s].user
         k == pcall[s][r].kind
     IN IF redisUp
        THEN /\ onlineSet' = OnlineSetAfter(k, u)
             /\ pcall' = [pcall EXCEPT ![s][r].pc = "publish"]
             /\ UNCHANGED <<lastCompleted, lastAck, sock>>
        ELSE /\ Complete(s, r, FALSE)
             /\ sock' = ResumeHandler(s, r)
             /\ UNCHANGED onlineSet
  /\ UNCHANGED <<envVars, presence, lastStarted, offlineCalled, busVars, storeVars>>

\* third await: broadcastPresenceUpdate, which never throws; then the call returns.
PresenceBroadcast(s, r) ==
  /\ pcall[s][r].pc = "publish"
  /\ LET u == sock[s].user
         k == pcall[s][r].kind
     IN busQ' = emitToUserAcrossInstances(u, "presence:update",
                                          [userId |-> u, status |-> k])
  /\ Complete(s, r, TRUE)
  /\ sock' = ResumeHandler(s, r)
  /\ UNCHANGED <<envVars, presence, onlineSet, lastStarted, offlineCalled,
                 subscribed, lastEmit, traceEmits, storeVars>>

\* refreshUserPresence, first await: redis.get(presenceKey); errors are caught.
RefreshGet(s, r) ==
  /\ pcall[s][r].pc = "get"
  /\ LET u == sock[s].user
     IN IF redisUp /\ presence[u] # NoRec
        THEN pcall' = [pcall EXCEPT ![s][r].pc = "refresh",
                                    ![s][r].snap = presence[u]]
        ELSE pcall' = [pcall EXCEPT ![s][r] = Idle]
  /\ UNCHANGED <<envVars, presence, onlineSet, lastStarted, lastCompleted,
                 gatewayVars, busVars, storeVars>>

\* refreshUserPresence, second await: redis.setEx of the record that was read.
RefreshSetEx(s, r) ==
  /\ pcall[s][r].pc = "refresh"
  /\ presence' = IF redisUp
                 THEN [presence EXCEPT ![sock[s].user] = pcall[s][r].snap]
                 ELSE presence
  /\ pcall' = [pcall EXCEPT ![s][r] = Idle]
  /\ UNCHANGED <<envVars, onlineSet, lastStarted, lastCompleted,
                 gatewayVars, busVars, storeVars>>

\* Redis drops a presence key whose TTL (PRESENCE_TTL seconds) elapsed.
ExpirePresence(u) ==
  /\ presence[u] # NoRec
  /\ presence' = [presence EXCEPT ![u] = NoRec]
  /\ UNCHANGED <<envVars, onlineSet, pcall, lastStarted, lastCompleted,
                 gatewayVars, busVars, storeVars>>

(***************************************************************************)
(* Connection gateway (initializeSocketIO)                                 *)
(***************************************************************************)
Tokens == {"valid", "invalid", "missing"}
NoSock == [state |-> "none", user |-> Undefined, rooms |-> {}, hpc |-> "none",
           token |-> "none"]

\* A faulty variant of Authenticates: the token is not verified.
AuthenticatesUnverified(token) == token # "missing"

\* The io.use middleware calls next() without an error: the handshake carries
\* a token and jwt.verify accepts it.
Authenticates(token) == token = "valid"

StartCall(s, r, kind, pc0) ==
  [pcall EXCEPT ![s][r] = [kind |-> kind, pc |-> pc0, snap |-> NoRec]]

\* io.use middleware, then the 'connection' handler up to `await setUserOnline`.
Connect(s, u, token) ==
  /\ sock[s].state # "connected"
  /\ \A r \in Roles : ~Active(s, r)
  /\ IF Authenticates(token)
     THEN /\ sock' = [sock EXCEPT ![s] =
                 [state |-> "connected", user |-> u,
                  rooms |-> {UserRoom(u)}, hpc |-> "awaitOnline", token |-> token]]
          /\ pcall' = StartCall(s, "connect", "online", "setEx")
          /\ lastStarted' = [lastStarted EXCEPT ![u] = "online"]
     ELSE /\ sock' = [sock EXCEPT ![s] =
                 [NoSock EXCEPT !.state = "rejected", !.token = token]]
          /\ UNCHANGED <<pcall, lastStarted>>
  /\ offlineCalled' = [offlineCalled EXCEPT ![s] = FALSE]
  /\ UNCHANGED <<envVars, presence, onlineSet, lastCompleted, lastAck, busVars,
                 storeVars>>

\* The transport reports the connection gone: socket.io leaves its rooms and
\* emits 'disconnect' to the listeners registered at that moment.
Disconnect(s) ==
  /\ sock[s].state = "connected"
  /\ sock' = [sock EXCEPT ![s].state = "closed", ![s].rooms = {}]
  /\ IF sock[s].hpc = "ready"
     THEN /\ ~Active(s, "disconnect")
          /\ pcall' = StartCall(s, "disconnect", "offline", "setEx")
          /\ lastStarted' = [lastStarted EXCEPT ![sock[s].user] = "offline"]
          /\ offlineCalled' = [offlineCalled EXCEPT ![s] = TRUE]
     ELSE UNCHANGED <<pcall, lastStarted, offlineCalled>>
  /\ UNCHANGED <<envVars, presence, onlineSet, lastCompleted, lastAck, busVars,
                 storeVars>>

\* 'user_online', 'user_offline' and 'presence:heartbeat' from the client.
ClientPresenceEvent(s, ev) ==
  /\ sock[s].state = "connected"
  /\ sock[s].hpc = "ready"
  /\ ~Active(s, "event")
  /\ CASE ev = "user_online" ->
            /\ pcall' = StartCall(s, "event", "online", "setEx")
            /\ lastStarted' = [lastStarted EXCEPT ![sock[s].user] = "online"]
       [] ev = "user_offline" ->
            /\ pcall' = StartCall(s, "event", "offline", "setEx")
            /\ lastStarted' = [lastStarted EXCEPT ![sock[s].user] = "offline"]
       [] OTHER ->
            /\ pcall' = StartCall(s, "event", "heartbeat", "get")
            /\ UNCHANGED lastStarted
  /\ UNCHANGED <<envVars, presence, onlineSet, lastCompleted, gatewayVars,
                 busVars, storeVars>>

(***************************************************************************)
(* Environment                                                             *)
(***************************************************************************)
RedisFlip ==
  /\ redisUp' = ~redisUp
  /\ UNCHANGED <<busUp, mongoUp, presenceVars, gatewayVars, busVars, storeVars>>

BusFlip ==
  /\ busUp' = ~busUp
  /\ UNCHANGED <<redisUp, mongoUp, presenceVars, gatewayVars, busVars, storeVars>>

MongoFlip ==
  /\ mongoUp' = ~mongoUp
  /\ UNCHANGED <<redisUp, busUp, presenceVars, gatewayVars, busVars, storeVars>>

(***************************************************************************)
(* Chat service (chat.service.ts).  A document id is its position in the   *)
(* collection; NoId is a missing or empty id, BadId a string that is not   *)
(* an ObjectId.                                                            *)
(***************************************************************************)
NoId == 0
BadId == -1
MaxChats == 2
MaxMessages == 2

Range(seq) == {seq[k] : k \in DOMAIN seq}

\* content.trim()
Trim(content) == IF content = " " THEN "" ELSE content

ChatCallers == Sockets \cup {"h1", "h2"}

ChatIdle == [op |-> "none", pc |-> "idle", user |-> Undefined, other |-> {},
             chat |-> NoId, content |-> "", msg |-> NoId, error |-> ""]

ChatRunning(p) == ccall[p].pc \notin {"idle", "done"}

\* A faulty variant of DirectChatQuery: the participants are compared in order.
DirectChatQueryOrdered(chat, userId1, userId2) ==
  chat.type = "direct" /\ chat.participants = <<userId1, userId2>>

\* The query of getOrCreateDirectChat:
\* { type: 'direct', participants: { $all: [userId1, userId2], $size: 2 } }
DirectChatQuery(chat, userId1, userId2) ==
  /\ chat.type = "direct"
  /\ {userId1, userId2} \subseteq Range(chat.participants)
  /\ Len(chat.participants) = 2

\* Chat.findOne: the first matching document in natural order, NoId when none.
FindOneDirect(userId1, userId2) ==
  LET hits == {c \in DOMAIN chats : DirectChatQuery(chats[c], userId1, userId2)}
  IN IF hits = {} THEN NoId ELSE CHOOSE c \in hits : \A d \in hits : c <= d

\* A chat-service call returns or throws.  A socket listener acknowledges to its
\* client and is over; an HTTP caller keeps the outcome as its response.
\* A faulty variant of ChatFinish: the catch block of the listener does not
\* call the acknowledgement callback.
ChatFinishUnacknowledged(p, error, chatId, msg) ==
  IF p \in Sockets
  THEN /\ ccall' = [ccall EXCEPT ![p] = ChatIdle]
       /\ lastAck' = IF error = "" THEN Ack(p, "send_message", error, msg) ELSE lastAck
  ELSE /\ ccall' = [ccall EXCEPT ![p].pc = "done", ![p].error = error,
                                 ![p].chat = chatId, ![p].msg = msg]
       /\ UNCHANGED lastAck

ChatFinish(p, error, chatId, msg) ==
  IF p \in Sockets
  THEN /\ ccall' = [ccall EXCEPT ![p] = ChatIdle]
       /\ lastAck' = Ack(p, "send_message", error, msg)
  ELSE /\ ccall' = [ccall EXCEPT ![p].pc = "done", ![p].error = error,
                                 ![p].chat = chatId, ![p].msg = msg]
       /\ UNCHANGED lastAck

chatFrame == <<envVars, presenceVars, sock, offlineCalled, subscribed, busQ, traceEmits,
               notifVars, postVars, authVars, opsVars>>

\* getOrCreateDirectChat up to its first await.
StartDirectChat(p, userId1, userId2) ==
  /\ p \notin Sockets
  /\ ~ChatRunning(p)
  /\ IF userId1 = userId2
     THEN ccall' = [ccall EXCEPT ![p] =
            [ChatIdle EXCEPT !.op = "direct", !.pc = "done", !.user = userId1,
                             !.other = {userId2}, !.error = "ValidationError"]]
     ELSE ccall' = [ccall EXCEPT ![p] =
            [ChatIdle EXCEPT !.op = "direct", !.pc = "findOne", !.user = userId1,
                             !.other = {userId2}]]
  /\ UNCHANGED <<chats, messages, lastAck, lastEmit, chatFrame>>

\* await Chat.findOne(...): an existing chat is returned.
DirectFindOne(p) ==
  /\ ccall[p].op = "direct"
  /\ ccall[p].pc = "findOne"
  /\ LET userId2 == CHOOSE u \in ccall[p].other : TRUE
         existingChat == FindOneDirect(ccall[p].user, userId2)
     IN IF ~mongoUp
        THEN ChatFinish(p, "StoreError", NoId, NoId)
        ELSE IF existingChat # NoId
        THEN ChatFinish(p, "", existingChat, NoId)
        ELSE /\ ccall' = [ccall EXCEPT ![p].pc = "create"]
             /\ UNCHANGED lastAck
  /\ UNCHANGED <<chats, messages, lastEmit, chatFrame>>

\* createGroupChat up to its first await.
StartGroupChat(p, creatorId, participantIds) ==
  /\ p \notin Sockets
  /\ ~ChatRunning(p)
  /\ IF participantIds = {} \/ Cardinality({creatorId} \cup participantIds) < 2
     THEN ccall' = [ccall EXCEPT ![p] =
            [ChatIdle EXCEPT !.op = "group", !.pc = "done", !.user = creatorId,
                             !.other = participantIds, !.error = "ValidationError"]]
     ELSE ccall' = [ccall EXCEPT ![p] =
            [ChatIdle EXCEPT !.op = "group", !.pc = "create", !.user = creatorId,
                             !.other = participantIds]]
  /\ UNCHANGED <<chats, messages, lastAck, lastEmit, chatFrame>>

\* [creatorId, ...participantIds] without repetitions, the creator first.
RECURSIVE SetToSeq(_)
SetToSeq(set) ==
  IF set = {} THEN <<>>
  ELSE LET x == CHOOSE y \in set : TRUE IN <<x>> \o SetToSeq(set \ {x})

\* await Chat.create(...), of either kind of chat.
ChatCreate(p) ==
  /\ ccall[p].op \in {"direct", "group"}
  /\ ccall[p].pc = "create"
  /\ IF mongoUp
     THEN /\ chats' = Append(chats,
                 [type |-> ccall[p].op,
                  participants |-> <<ccall[p].user>>
                                   \o SetToSeq(ccall[p].other \ {ccall[p].user}),
                  lastMessage |-> NoId])
          /\ ccall' = [ccall EXCEPT ![p].pc = "populate", ![p].chat = Len(chats) + 1]
          /\ UNCHANGED lastAck
     ELSE /\ ChatFinish(p, "StoreError", NoId, NoId)
          /\ UNCHANGED chats
  /\ UNCHANGED <<messages, lastEmit, chatFrame>>

\* await Chat.findById(chat._id).populate(...), then the call returns the chat.
ChatPopulate(p) ==
  /\ ccall[p].op \in {"direct", "group"}
  /\ ccall[p].pc = "populate"
  /\ IF mongoUp
     THEN ChatFinish(p, "", ccall[p].chat, NoId)
     ELSE ChatFinish(p, "StoreError", NoId, NoId)
  /\ UNCHANGED <<chats, messages, lastEmit, chatFrame>>

(***************************************************************************)
(* registerChatHandlers (chatHandlers.ts)                                  *)
(***************************************************************************)
Listening(s) == sock[s].state = "connected" /\ sock[s].hpc = "ready"

\* 'send_message' up to `await sendMessage`, which runs to its first await.
SendMessageEvent(s, chatId, content) ==
  /\ Listening(s)
  /\ ~ChatRunning(s)
  /\ IF chatId = NoId \/ content = "" \/ Trim(content) = ""
     THEN /\ lastAck' = Ack(s, "send_message", "Invalid message data", NoId)
          /\ UNCHANGED ccall
     ELSE /\ ccall' = [ccall EXCEPT ![s] =
                 [ChatIdle EXCEPT !.op = "send", !.pc = "findById",
                                  !.user = sock[s].user, !.chat = chatId,
                                  !.content = content]]
          /\ UNCHANGED lastAck
  /\ UNCHANGED <<chats, messages, lastEmit, chatFrame>>

\* A faulty variant of IsParticipant: the check is missing.
IsParticipantAlways(chat, userId) == TRUE

\* chat.participants.some((p) => p.equals(userObjectId))
IsParticipant(chat, userId) == userId \in Range(chat.participants)

\* sendMessage: await Chat.findById(chatId), then the participant check.
SendFindById(s) ==
  /\ ccall[s].op = "send"
  /\ ccall[s].pc = "findById"
  /\ LET chatId == ccall[s].chat
     IN IF ~mongoUp \/ chatId = BadId
        THEN ChatFinish(s, "StoreError", NoId, NoId)
        ELSE IF chatId \notin DOMAIN chats
        THEN ChatFinish(s, "NotFound", NoId, NoId)
        ELSE IF ~IsParticipant(chats[chatId], ccall[s].user)
        THEN ChatFinish(s, "ValidationError", NoId, NoId)
        ELSE /\ ccall' = [ccall EXCEPT ![s].pc = "create"]
             /\ UNCHANGED lastAck
  /\ UNCHANGED <<chats, messages, lastEmit, chatFrame>>

\* sendMessage: await Message.create(...)
SendCreate(s) ==
  /\ ccall[s].op = "send"
  /\ ccall[s].pc = "create"
  /\ IF mongoUp
     THEN /\ messages' = Append(messages,
                 [chat |-> ccall[s].chat, sender |-> ccall[s].user,
                  content |-> Trim(ccall[s].content)])
          /\ ccall' = [ccall EXCEPT ![s].pc = "save", ![s].msg = Len(messages) + 1]
          /\ UNCHANGED lastAck
     ELSE /\ ChatFinish(s, "StoreError", NoId, NoId)
          /\ UNCHANGED messages
  /\ UNCHANGED <<chats, lastEmit, chatFrame>>

\* sendMessage: chat.lastMessage = message._id; await chat.save()
SendSave(s) ==
  /\ ccall[s].op = "send"
  /\ ccall[s].pc = "save"
  /\ IF mongoUp
     THEN /\ chats' = [chats EXCEPT ![ccall[s].chat].lastMessage = ccall[s].msg]
          /\ ccall' = [ccall EXCEPT ![s].pc = "populate"]
          /\ UNCHANGED lastAck
     ELSE /\ ChatFinish(s, "StoreError", NoId, NoId)
          /\ UNCHANGED chats
  /\ UNCHANGED <<messages, lastEmit, chatFrame>>

\* The connections 'new_message' is sent to once sendMessage returned on
\* instance i: io.to(`chat:${chatId}`).emit on the io of that instance.
NewMessageTargets(i, chatId) == InRoom(i, ChatRoom(chatId))

\* sendMessage: await Message.findById(...).populate(...) and return; the
\* listener then emits 'new_message' and acknowledges.
SendPopulate(s) ==
  /\ ccall[s].op = "send"
  /\ ccall[s].pc = "populate"
  /\ IF mongoUp
     THEN /\ lastEmit' = Emit(SockInst[s], NewMessageTargets(SockInst[s], ccall[s].chat),
                              "new_message",
                              [id |-> ccall[s].msg, chat |-> ccall[s].chat])
          /\ ChatFinish(s, "", ccall[s].chat, ccall[s].msg)
     ELSE /\ ChatFinish(s, "StoreError", NoId, NoId)
          /\ UNCHANGED lastEmit
  /\ UNCHANGED <<chats, messages, chatFrame>>

gatewayFrame == <<envVars, presenceVars, offlineCalled, subscribed, traceEmits, storeVars>>

\* 'join_chat': any authenticated connection joins the room of any chat id.
JoinChat(s, chatId) ==
  /\ Listening(s)
  /\ IF chatId = NoId
     THEN /\ lastAck' = Ack(s, "join_chat", "Chat ID required", NoId)
          /\ UNCHANGED sock
     ELSE /\ sock' = [sock EXCEPT ![s].rooms = @ \cup {ChatRoom(chatId)}]
          /\ lastAck' = Ack(s, "join_chat", "", chatId)
  /\ UNCHANGED <<busQ, lastEmit, gatewayFrame>>

\* 'leave_chat'
LeaveChat(s, chatId) ==
  /\ Listening(s)
  /\ IF chatId = NoId
     THEN /\ lastAck' = Ack(s, "leave_chat", "Chat ID required", NoId)
          /\ UNCHANGED sock
     ELSE /\ sock' = [sock EXCEPT ![s].rooms = @ \ {ChatRoom(chatId)}]
          /\ lastAck' = Ack(s, "leave_chat", "", chatId)
  /\ UNCHANGED <<busQ, lastEmit, gatewayFrame>>

\* 'typing' and 'stop_typing': publish on the room channel; nothing is
\* acknowledged and a publish failure is only logged.
Typing(s, chatId, event) ==
  /\ Listening(s)
  /\ busQ' = IF chatId = NoId THEN busQ
             ELSE emitToRoomAcrossInstances(ChatRoom(chatId), event,
                                            [chatId |-> chatId, userId |-> sock[s].user])
  /\ UNCHANGED <<sock, lastAck, lastEmit, gatewayFrame>>

\* publishMessage is exported: any module of an instance may publish any
\* PubSubMessage on any channel, with or without the optional members.
Publish(channel, message) ==
  /\ busUp
  /\ busQ' = publishMessage(channel, message)
  /\ UNCHANGED <<sock, lastAck, lastEmit, gatewayFrame>>

\* Another Redis client publishes a string of its own on a channel.
PublishForeign(channel, str) ==
  /\ busQ' = BusAfterPublish(channel, str)
  /\ UNCHANGED <<sock, lastAck, lastEmit, gatewayFrame>>

\* Another Redis client publishes a string that is not JSON on a channel.
PublishMalformed(channel) == PublishForeign(channel, Malformed)

\* cleanupPubSub: the instance unsubscribes from the three channels.
cleanupPubSub(i) ==
  /\ subscribed[i] # {}
  /\ subscribed' = [subscribed EXCEPT ![i] = {}]
  /\ UNCHANGED <<envVars, presenceVars, gatewayVars, busQ, lastEmit, traceEmits, storeVars>>

\* initializePubSub: the instance subscribes to the three channels.
initializePubSub(i) ==
  /\ subscribed[i] = {}
  /\ subscribed' = [subscribed EXCEPT ![i] = Channels]
  /\ UNCHANGED <<envVars, presenceVars, gatewayVars, busQ, lastEmit, traceEmits, storeVars>>

(***************************************************************************)
(* Notification service (NotificationService) and emitNotificationToUser   *)
(***************************************************************************)
MaxNotifications == 2

NotifCallers == {"n1", "n2"}

\* mongoose.Types.ObjectId.isValid on a user id; "bad" is not an ObjectId.
IsValidUserId(id) == id # "bad"

NoData == [recipientId |-> Undefined, actorId |-> Undefined, type |-> "none"]

NotifIdle == [op |-> "none", user |-> Undefined,
              pc |-> "idle", inst |-> "none", data |-> NoData, rest |-> <<>>,
              mentions |-> {}, nid |-> NoId, status |-> "none", detached |-> FALSE]

\* A chain ends with the outcome of its last call; nobody receives the outcome
\* of a chain that was started without being awaited (it is logged on error).
NotifEnd(call, status) ==
  IF call.detached THEN NotifIdle
  ELSE [call EXCEPT !.pc = "done", !.rest = <<>>, !.mentions = {}, !.status = status]

NotifRunning(n) == ncall[n].pc \notin {"idle", "done"}

\* A faulty variant of IsSelfNotification: the check is missing.
IsSelfNotificationNever(data) == FALSE

\* createNotification: "actor is recipient", the call returns null.
IsSelfNotification(data) == data.recipientId = data.actorId

\* A chain of createNotification calls, each awaited before the next: the code
\* of the calls up to the first `await notification.save()`.  A call that
\* throws ends the chain, a call that returns null lets it continue.
RECURSIVE NotifBegin(_, _, _)
NotifBegin(call, todo, status) ==
  IF todo = <<>>
  THEN NotifEnd(call, status)
  ELSE LET data == Head(todo)
       IN IF ~IsValidUserId(data.recipientId) \/ ~IsValidUserId(data.actorId)
          THEN NotifEnd([call EXCEPT !.data = data, !.nid = NoId], "ValidationError")
          ELSE IF IsSelfNotification(data)
          THEN NotifBegin([call EXCEPT !.data = data, !.nid = NoId], Tail(todo), "null")
          ELSE [call EXCEPT !.pc = "save", !.data = data, !.rest = Tail(todo),
                            !.nid = NoId, !.status = "none"]

\* Notifications the running chains may still persist.
NotifDemand ==
  LET D(n) == (IF ncall[n].pc = "save" THEN 1 ELSE 0) + Len(ncall[n].rest)
                + Cardinality(ncall[n].mentions)
  IN D("n1") + D("n2")

notifFrame == <<envVars, presenceVars, gatewayVars, subscribed, busQ, traceEmits, chatVars,
                authVars, opsVars>>

\* notificationService.createNotification(data) called on instance i.
CreateNotification(n, i, data) ==
  /\ ~NotifRunning(n)
  /\ ncall' = [ncall EXCEPT ![n] = NotifBegin([NotifIdle EXCEPT !.op = "create", !.inst = i], <<data>>, "none")]
  /\ UNCHANGED <<notifications, lastEmit, notifFrame, postVars>>

\* await notification.save()
NotifSave(n) ==
  /\ ncall[n].pc = "save"
  /\ IF mongoUp
     THEN /\ notifications' = Append(notifications,
                 [recipient |-> ncall[n].data.recipientId,
                  actor |-> ncall[n].data.actorId,
                  type |-> ncall[n].data.type, isRead |-> FALSE])
          /\ ncall' = [ncall EXCEPT ![n].pc = "populate",
                                    ![n].nid = Len(notifications) + 1]
     ELSE /\ ncall' = [ncall EXCEPT ![n] = NotifEnd(ncall[n], "StoreError")]
          /\ UNCHANGED notifications
  /\ UNCHANGED <<lastEmit, notifFrame, postVars>>

\* emitNotificationToUser: io.to(`notifications:${userId}`).emit on the io of
\* the instance that runs the service.
NotificationTargets(i, userId) == InRoom(i, NotificationRoom(userId))

\* The processes that run the services: the instances, whose gateway was
\* initialised, and a worker process "W" that never called initializeSocketIO.
Processes == Instances \cup {"W"}

\* getIO() of process i returns the Server; otherwise it throws.
IoInitialised(i) == i \in Instances

\* A faulty variant of PushRaises: the error of getIO escapes the helper.
PushRaisesWithoutGateway(i) == ~IoInitialised(i)

\* Whether NotificationService.emitNotificationToUser raises to createNotification:
\* both it and the emitNotificationToUser it calls catch and log every error.
PushRaises(i) == FALSE

\* await notification.populate(...), then emitNotificationToUser and return.
NotifPopulate(n) ==
  /\ ncall[n].pc = "populate"
  /\ IF mongoUp
     THEN /\ lastEmit' = IF IoInitialised(ncall[n].inst)
                          THEN Emit(ncall[n].inst,
                                    NotificationTargets(ncall[n].inst, ncall[n].data.recipientId),
                                    "notification:new",
                                    [id |-> ncall[n].nid,
                                     recipient |-> ncall[n].data.recipientId])
                          ELSE lastEmit
          /\ ncall' = [ncall EXCEPT ![n] =
                         IF PushRaises(ncall[n].inst)
                         THEN NotifEnd(ncall[n], "PushError")
                         ELSE NotifBegin(ncall[n], ncall[n].rest, "created")]
     ELSE /\ ncall' = [ncall EXCEPT ![n] = NotifEnd(ncall[n], "StoreError")]
          /\ UNCHANGED lastEmit
  /\ UNCHANGED <<notifications, notifFrame, postVars>>

\* createMentionNotifications: await User.find({ username: { $in: usernames } }),
\* then one createNotification per user found.
MentionData(userId, mentionerId) ==
  [recipientId |-> userId, actorId |-> mentionerId, type |-> "mention"]

RECURSIVE MentionTodo(_, _)
MentionTodo(users, mentionerId) ==
  IF users = {} THEN <<>>
  ELSE LET u == CHOOSE v \in users : TRUE
       IN <<MentionData(u, mentionerId)>> \o MentionTodo(users \ {u}, mentionerId)

NotifFindUsers(n) ==
  /\ ncall[n].pc = "findUsers"
  /\ IF mongoUp
     THEN ncall' = [ncall EXCEPT ![n] =
            NotifBegin([ncall[n] EXCEPT !.mentions = {}],
                       MentionTodo(ncall[n].mentions \cap Users, ncall[n].data.actorId),
                       "none")]
     ELSE ncall' = [ncall EXCEPT ![n] = NotifEnd(ncall[n], "StoreError")]
  /\ UNCHANGED <<notifications, lastEmit, notifFrame, postVars>>

(***************************************************************************)
(* Cache service (cache.ts).  A key is the sequence of its ':'-separated   *)
(* parts; a pattern `prefix*` matches the keys that start with the parts   *)
(* of the prefix.                                                          *)
(***************************************************************************)
Null == [null |-> TRUE]

CacheKeysPost(postId) == <<"post", ToString(postId)>>

CacheKeysPostList(filters) ==
  <<"post", "list">>
    \o (IF filters.author # Undefined THEN <<"author:" \o filters.author>> ELSE <<>>)
    \o (IF filters.status # Undefined THEN <<"status:" \o filters.status>> ELSE <<>>)
    \o (IF filters.page # 0 THEN <<"page:" \o ToString(filters.page)>> ELSE <<>>)
    \o (IF filters.limit # 0 THEN <<"limit:" \o ToString(filters.limit)>> ELSE <<>>)

CacheKeysSearch(query, filters, sortBy, page) ==
  <<"search", "q:" \o query>>
    \o (IF filters.author # Undefined THEN <<"author:" \o filters.author>> ELSE <<>>)
    \o (IF sortBy # Undefined THEN <<"sort:" \o sortBy>> ELSE <<>>)
    \o (IF page # 0 THEN <<"page:" \o ToString(page)>> ELSE <<>>)

PostListPattern == <<"post", "list">>
SearchPattern == <<"search">>

MatchesPattern(key, prefix) ==
  Len(key) >= Len(prefix) /\ SubSeq(key, 1, Len(prefix)) = prefix

\* A faulty variant of CacheRaises: a Redis failure escapes the method.
CacheRaisesWhenDown(method) == ~redisUp

\* Whether a CacheService method (get, set, delete, invalidatePattern) rejects:
\* each catches every error of its Redis call and logs it.
CacheRaises(method) == FALSE

\* The keys that exist in the cache c; an absent key holds Null.
CachedKeys(c) == {k \in DOMAIN c : c[k] # Null}

\* CacheService.get: the value, or null on a miss and on a Redis failure.
CacheGet(key) == IF redisUp THEN cache[key] ELSE Null

\* CacheService.set: the cache afterwards; a Redis failure is logged.
CacheSet(key, value) == IF redisUp THEN [cache EXCEPT ![key] = value] ELSE cache

\* CacheService.delete of a set of keys
CacheDelete(c, keys) == [k \in DOMAIN c |-> IF k \in keys THEN Null ELSE c[k]]

\* CacheService.invalidatePattern
InvalidatePattern(c, prefix) ==
  CacheDelete(c, {k \in CachedKeys(c) : MatchesPattern(k, prefix)})

\* A faulty variant of invalidatePostCaches: the list pattern is left alone.
invalidatePostCachesNoList(postId) ==
  IF redisUp
  THEN InvalidatePattern(
         IF postId # NoId THEN CacheDelete(cache, {CacheKeysPost(postId)}) ELSE cache,
         SearchPattern)
  ELSE cache

\* PostService.invalidatePostCaches(postId?): the cache afterwards.
invalidatePostCaches(postId) ==
  IF redisUp
  THEN InvalidatePattern(
         InvalidatePattern(
           IF postId # NoId THEN CacheDelete(cache, {CacheKeysPost(postId)}) ELSE cache,
           PostListPattern),
         SearchPattern)
  ELSE cache

(***************************************************************************)
(* Post service (PostService)                                              *)
(***************************************************************************)
MaxPosts == 1
MaxComments == 1
MaxViews == 1
MaxVersion == 2

PostCallers == {"q1", "q2"}

IsValidObjectId(id) == id > 0

NoParams == [kind |-> "none", query |-> "", author |-> Undefined, status |-> Undefined,
             sortBy |-> Undefined, page |-> 0, limit |-> 0]

PostIdle == [op |-> "none", pc |-> "idle", inst |-> "none", post |-> NoId,
             user |-> Undefined, params |-> NoParams, mentions |-> {}, status |-> Undefined,
             key |-> <<>>, snap |-> Null, hit |-> FALSE, result |-> Null, error |-> "",
             affected |-> {}, already |-> FALSE, cacheDown |-> FALSE, changed |-> FALSE,
             views |-> 0]

PostRunning(q) == preq[q].pc # "idle"

Count(seq, x) == Cardinality({k \in DOMAIN seq : seq[k] = x})

Filter(seq, x) == SelectSeq(seq, LAMBDA y : y # x)

\* What JSON.stringify keeps of a Mongoose Post document: the toJSON transform
\* deletes __v and adds the virtuals.  Lean query results pass unchanged.
ToJSON(doc) ==
  [id |-> doc.id, author |-> doc.author, status |-> doc.status, likes |-> doc.likes,
   bookmarks |-> doc.bookmarks, commentCount |-> doc.commentCount,
   viewCount |-> doc.viewCount, likeCount |-> Len(doc.likes),
   bookmarkCount |-> Len(doc.bookmarks)]

\* The filter of listPosts and searchPosts: status defaults to 'published'.
MatchesQuery(doc, params) ==
  /\ doc.status = (IF params.status # Undefined THEN params.status ELSE "published")
  /\ params.author # Undefined => doc.author = params.author

\* sort: createdAt descending, or for 'popularity' likeCount, commentCount and
\* createdAt descending.  Documents are stored in creation order.
SortsBefore(a, b, sortBy) ==
  IF sortBy = "popularity"
  THEN \/ Len(a.likes) > Len(b.likes)
       \/ Len(a.likes) = Len(b.likes) /\ a.commentCount > b.commentCount
       \/ Len(a.likes) = Len(b.likes) /\ a.commentCount = b.commentCount /\ a.id > b.id
  ELSE a.id > b.id

\* A faulty variant of PaginatedPosts: skip is page * limit.
PaginatedPostsSkipByPage(store, params) ==
  LET matching == {k \in DOMAIN store : MatchesQuery(store[k], params)}
      total == Cardinality(matching)
      sorted == [n \in 1..total |->
                   CHOOSE k \in matching :
                     Cardinality({j \in matching :
                        SortsBefore(store[j], store[k], params.sortBy)}) = n - 1]
      skip == params.page * params.limit
      last == IF skip + params.limit < total THEN skip + params.limit ELSE total
      totalPages == (total + params.limit - 1) \div params.limit
  IN [posts |-> [n \in 1..(IF last > skip THEN last - skip ELSE 0) |-> store[sorted[skip + n]]],
      total |-> total, page |-> params.page, totalPages |-> totalPages,
      hasMore |-> params.page < totalPages]

\* find(query).sort().skip().limit() with countDocuments(query): a PaginatedPosts.
PaginatedPosts(store, params) ==
  LET matching == {k \in DOMAIN store : MatchesQuery(store[k], params)}
      total == Cardinality(matching)
      sorted == [n \in 1..total |->
                   CHOOSE k \in matching :
                     Cardinality({j \in matching :
                        SortsBefore(store[j], store[k], params.sortBy)}) = n - 1]
      skip == (params.page - 1) * params.limit
      last == IF skip + params.limit < total THEN skip + params.limit ELSE total
      totalPages == (total + params.limit - 1) \div params.limit
  IN [posts |-> [n \in 1..(IF last > skip THEN last - skip ELSE 0) |-> store[sorted[skip + n]]],
      total |-> total, page |-> params.page, totalPages |-> totalPages,
      hasMore |-> params.page < totalPages]

ReadKey(params) ==
  IF params.kind = "list"
  THEN CacheKeysPostList(params)
  ELSE CacheKeysSearch(params.query, params, params.sortBy, params.page)

\* The cached reads the model follows.
ListX == [NoParams EXCEPT !.kind = "list", !.page = 1, !.limit = 2]
SearchX == [NoParams EXCEPT !.kind = "search", !.sortBy = "popularity", !.page = 1,
                            !.limit = 2]
ReadParams == {ListX, SearchX}

\* The lists a client pages through: a status filter and a page size.
MaxListed == 3
PageSizes == {1, 2}
PageFilters == {Undefined, "draft"}
PageParams ==
  {[NoParams EXCEPT !.kind = "list", !.status = st, !.page = pg, !.limit = lim] :
     st \in PageFilters, pg \in 1..MaxListed, lim \in PageSizes}

\* listPosts and searchPosts calls that differ in status, page and limit.
KeyParams ==
  {[NoParams EXCEPT !.kind = k, !.status = st, !.page = pg, !.limit = lim,
                    !.sortBy = IF k = "search" THEN "date" ELSE Undefined] :
     k \in {"list", "search"}, st \in PageFilters, pg \in {1, 2}, lim \in PageSizes}

\* The keys the model can produce.
CacheKeySpace ==
  {CacheKeysPost(id) : id \in 1..(MaxPosts + 1)} \cup {ReadKey(p) : p \in ReadParams}
    \cup {ReadKey(p) : p \in PageParams} \cup {ReadKey(p) : p \in KeyParams}

\* A result without the view counters, which getPost advances without
\* invalidating any list.
NoViews(result) ==
  [result EXCEPT !.posts = [n \in DOMAIN result.posts |->
                              [result.posts[n] EXCEPT !.viewCount = 0]]]

\* The reads whose result a change of the Post collection changes.
Affected(old, new) ==
  {p \in ReadParams : NoViews(PaginatedPosts(old, p)) # NoViews(PaginatedPosts(new, p))}

\* readPhase after a write that changed the reads in affected completed its
\* invalidation with the cache reachable or not.
PhaseAfterWrite(affected, reachable) ==
  [p \in ReadParams |->
     IF p \notin affected THEN readPhase[p]
     ELSE IF reachable /\ readPhase[p] # "none" THEN "written"
     ELSE IF readPhase[p] \in {"read", "reread", "rereadDown"} THEN "writtenDown"
     ELSE readPhase[p]]

PhaseAfterRead(p) ==
  [readPhase EXCEPT ![p] = CASE @ = "written" -> "reread"
                             [] @ = "writtenDown" -> "rereadDown"
                             [] @ = "none" -> "read"
                             [] OTHER -> @]

startFrame == <<envVars, presenceVars, gatewayVars, busVars, chatVars, notifications,
                authVars, opsVars, pager>>
postFrame == <<startFrame, postCalls>>

\* A call returned or threw: its locals are gone, its outcome is the response.
Returned(r, error) ==
  [r EXCEPT !.pc = "done", !.error = error, !.mentions = {}, !.affected = {},
            !.key = <<>>,
            !.already = r.op \in {"likePost", "bookmarkPost"} /\ r.pc = "findById",
            !.snap = Null]

PostFail(q, error) == [preq EXCEPT ![q] = Returned(preq[q], error)]

\* The calls start: the code up to the first await.
StartCreatePost(q, i, userId, status) ==
  /\ ~PostRunning(q)
  /\ preq' = [preq EXCEPT ![q] =
       [PostIdle EXCEPT !.op = "createPost", !.pc = "save", !.inst = i, !.user = userId,
                        !.status = status]]
  /\ postCalls' = postCalls + 1
  /\ UNCHANGED <<posts, comments, cache, readPhase, ncall, startFrame>>

PostOps == {"likePost", "unlikePost", "bookmarkPost", "unbookmarkPost", "addComment"}

StartPostOp(q, i, op, postId, userId, mentions) ==
  /\ ~PostRunning(q)
  /\ op \in PostOps
  /\ op # "addComment" => mentions = {}
  /\ preq' = [preq EXCEPT ![q] =
       IF IsValidObjectId(postId)
       THEN [PostIdle EXCEPT !.op = op, !.pc = "findById", !.inst = i, !.post = postId,
                             !.user = userId, !.mentions = mentions]
       ELSE [PostIdle EXCEPT !.op = op, !.pc = "done", !.inst = i, !.post = postId,
                             !.user = userId, !.error = "NotFound"]]
  /\ postCalls' = postCalls + 1
  /\ UNCHANGED <<posts, comments, cache, readPhase, ncall, startFrame>>

StartGetPost(q, i, postId) ==
  /\ ~PostRunning(q)
  /\ preq' = [preq EXCEPT ![q] =
       IF IsValidObjectId(postId)
       THEN [PostIdle EXCEPT !.op = "getPost", !.pc = "cacheGet", !.inst = i,
                             !.post = postId, !.key = CacheKeysPost(postId)]
       ELSE [PostIdle EXCEPT !.op = "getPost", !.pc = "done", !.inst = i,
                             !.post = postId, !.error = "NotFound"]]
  /\ postCalls' = postCalls + 1
  /\ UNCHANGED <<posts, comments, cache, readPhase, ncall, startFrame>>

\* listPosts and searchPosts
StartRead(q, i, params) ==
  /\ ~PostRunning(q)
  /\ preq' = [preq EXCEPT ![q] =
       [PostIdle EXCEPT !.op = params.kind, !.pc = "cacheGet", !.inst = i,
                        !.params = params, !.key = ReadKey(params)]]
  /\ postCalls' = postCalls + 1
  /\ UNCHANGED <<posts, comments, cache, readPhase, ncall, startFrame>>

\* A faulty variant of AlreadyIn: the membership test is missing.
AlreadyInNever(list, userId) == FALSE

\* post.likes.some(id => id.equals(userObjectId)), and the same on bookmarks.
AlreadyIn(list, userId) == userId \in Range(list)

NewPost(id, userId, status) ==
  [id |-> id, author |-> userId, status |-> status, likes |-> <<>>, bookmarks |-> <<>>,
   commentCount |-> 0, viewCount |-> 0, v |-> 0]

\* await Post.findById(postId) of likePost, unlikePost, bookmarkPost,
\* unbookmarkPost and addComment, and the code up to the next await.
PostFindById(q) ==
  /\ preq[q].pc = "findById"
  /\ LET r == preq[q]
         doc == posts[r.post]
     IN preq' = [preq EXCEPT ![q] =
          IF ~mongoUp THEN [Returned(r, "StoreError") EXCEPT !.already = FALSE]
          ELSE IF r.post \notin DOMAIN posts
          THEN [Returned(r, "NotFound") EXCEPT !.already = FALSE]
          ELSE IF \/ r.op = "likePost" /\ AlreadyIn(doc.likes, r.user)
                  \/ r.op = "bookmarkPost" /\ AlreadyIn(doc.bookmarks, r.user)
          THEN Returned(r, "")
          ELSE IF r.op = "addComment"
          THEN [r EXCEPT !.pc = "saveComment", !.snap = doc]
          ELSE [r EXCEPT !.pc = "save", !.snap = doc]]
  /\ UNCHANGED <<posts, comments, cache, readPhase, ncall, postFrame>>

\* The document after post.save() of a call that read snap: an array push is
\* sent as $push, an assigned array as $set of the whole array guarded by the
\* version read; an assignment equal to what was read sends nothing.
SavedDoc(doc, r) ==
  CASE r.op = "likePost" ->
         [doc EXCEPT !.likes = Append(@, r.user), !.v = @ + 1]
    [] r.op = "bookmarkPost" ->
         [doc EXCEPT !.bookmarks = Append(@, r.user), !.v = @ + 1]
    [] r.op = "unlikePost" ->
         IF AlreadyIn(r.snap.likes, r.user)
         THEN [doc EXCEPT !.likes = Filter(r.snap.likes, r.user), !.v = @ + 1]
         ELSE doc
    [] r.op = "unbookmarkPost" ->
         IF AlreadyIn(r.snap.bookmarks, r.user)
         THEN [doc EXCEPT !.bookmarks = Filter(r.snap.bookmarks, r.user), !.v = @ + 1]
         ELSE doc

VersionConflict(doc, r) ==
  \/ r.op = "unlikePost" /\ AlreadyIn(r.snap.likes, r.user) /\ doc.v # r.snap.v
  \/ r.op = "unbookmarkPost" /\ AlreadyIn(r.snap.bookmarks, r.user) /\ doc.v # r.snap.v

\* await post.save()
PostSave(q) ==
  /\ preq[q].pc = "save"
  /\ LET r == preq[q]
         new == IF r.op = "createPost"
                THEN Append(posts, NewPost(Len(posts) + 1, r.user, r.status))
                ELSE [posts EXCEPT ![r.post] = SavedDoc(@, r)]
     IN IF ~mongoUp
        THEN /\ preq' = PostFail(q, "StoreError")
             /\ UNCHANGED posts
        ELSE IF r.op # "createPost" /\ VersionConflict(posts[r.post], r)
        THEN /\ preq' = PostFail(q, "VersionError")
             /\ UNCHANGED posts
        ELSE /\ posts' = new
             /\ preq' = [preq EXCEPT ![q].pc = "invalidate",
                           ![q].changed = new # posts,
                           ![q].affected = Affected(posts, new),
                           ![q].result = IF r.op = "createPost" THEN new[Len(new)]
                                         ELSE Null]
  /\ UNCHANGED <<comments, cache, readPhase, ncall, postFrame>>

\* addComment: await comment.save()
SaveComment(q) ==
  /\ preq[q].pc = "saveComment"
  /\ IF mongoUp
     THEN /\ comments' = Append(comments, [post |-> preq[q].post, author |-> preq[q].user])
          /\ preq' = [preq EXCEPT ![q].pc = "incCount",
                                  ![q].result = [comment |-> Len(comments) + 1]]
     ELSE /\ preq' = PostFail(q, "StoreError")
          /\ UNCHANGED comments
  /\ UNCHANGED <<posts, cache, readPhase, ncall, postFrame>>

\* addComment: await Post.findByIdAndUpdate(postId, { $inc: { commentCount: 1 } })
IncCommentCount(q) ==
  /\ preq[q].pc = "incCount"
  /\ LET new == [posts EXCEPT ![preq[q].post].commentCount = @ + 1]
     IN IF mongoUp
        THEN /\ posts' = new
             /\ preq' = [preq EXCEPT ![q].pc = "populate",
                                     ![q].changed = TRUE,
                                     ![q].affected = Affected(posts, new)]
        ELSE /\ preq' = PostFail(q, "StoreError")
             /\ UNCHANGED posts
  /\ UNCHANGED <<comments, cache, readPhase, ncall, postFrame>>

\* addComment: await comment.populate('author', ...)
PopulateComment(q) ==
  /\ preq[q].pc = "populate"
  /\ preq' = IF mongoUp THEN [preq EXCEPT ![q].pc = "invalidate"]
             ELSE PostFail(q, "StoreError")
  /\ UNCHANGED <<posts, comments, cache, readPhase, ncall, postFrame>>

\* The notification chains likePost and addComment start without awaiting
\* them: createLikeNotification, createCommentNotification and
\* createMentionNotifications.
AuthorNotification(r, type) ==
  NotifBegin([NotifIdle EXCEPT !.op = "create", !.inst = r.inst, !.detached = TRUE],
             <<[recipientId |-> r.snap.author, actorId |-> r.user, type |-> type]>>,
             "none")

MentionChain(r) ==
  [NotifIdle EXCEPT !.op = "create", !.pc = "findUsers", !.inst = r.inst, !.detached = TRUE,
                    !.mentions = r.mentions,
                    !.data = MentionData(Undefined, r.user)]

\* A faulty variant of InvalidationRaises: the failure of the cache calls made
\* by invalidatePostCaches reaches the operation that awaits it.
InvalidationRaisesWhenDown(postId) == ~redisUp

\* Whether `await this.invalidatePostCaches(postId)` rejects: its try/catch logs
\* whatever the cache calls raise and does not throw.
InvalidationRaises(postId) == FALSE

\* await this.invalidatePostCaches(postId), then the rest of the call.
PostInvalidate(q) ==
  /\ preq[q].pc = "invalidate"
  /\ LET r == preq[q]
         raised == InvalidationRaises(r.post)
     IN /\ cache' = invalidatePostCaches(IF r.op = "createPost" THEN NoId ELSE r.post)
        /\ readPhase' = PhaseAfterWrite(r.affected, redisUp)
        /\ preq' = [preq EXCEPT ![q] =
                      [Returned(r, IF raised THEN "CacheError" ELSE "")
                         EXCEPT !.cacheDown = r.cacheDown \/ ~redisUp]]
        /\ ncall' =
             CASE raised -> ncall
               [] r.op = "likePost" ->
                    [ncall EXCEPT !["n1"] = AuthorNotification(r, "like")]
               [] r.op = "addComment" ->
                    [ncall EXCEPT !["n1"] = AuthorNotification(r, "comment"),
                                  !["n2"] = IF r.mentions = {} THEN @ ELSE MentionChain(r)]
               [] OTHER -> ncall
  /\ UNCHANGED <<posts, comments, postFrame>>

\* await cacheService.get(cacheKey) of getPost, listPosts and searchPosts.
PostCacheGet(q) ==
  /\ preq[q].pc = "cacheGet"
  /\ LET r == [preq[q] EXCEPT !.cacheDown = @ \/ ~redisUp]
         cached == CacheGet(r.key)
     IN IF CacheRaises("get")
        THEN /\ preq' = [preq EXCEPT ![q] = Returned(r, "CacheError")]
             /\ UNCHANGED readPhase
        ELSE IF r.op = "getPost"
        THEN /\ preq' = [preq EXCEPT ![q] =
                   [r EXCEPT !.pc = "incView", !.hit = cached # Null, !.result = cached]]
             /\ UNCHANGED readPhase
        ELSE IF cached # Null
        THEN /\ preq' = [preq EXCEPT ![q] =
                   [Returned(r, "") EXCEPT !.hit = TRUE, !.result = cached]]
             /\ readPhase' = PhaseAfterRead(r.params)
        ELSE /\ preq' = [preq EXCEPT ![q] = [r EXCEPT !.pc = "query"]]
             /\ UNCHANGED readPhase
  /\ UNCHANGED <<posts, comments, cache, ncall, postFrame>>

\* A faulty variant of ViewsAfter: a post served from the cache is not counted.
ViewsAfterSkippingHits(doc, hit) == IF hit THEN doc.viewCount ELSE doc.viewCount + 1

\* { $inc: { viewCount: 1 } } of getPost, on a cache hit and on a miss.
ViewsAfter(doc, hit) == doc.viewCount + 1

\* getPost: await Post.findByIdAndUpdate(postId, { $inc: { viewCount: 1 } });
\* views is the number of views the call added.
IncViewCount(q) ==
  /\ preq[q].pc = "incView"
  /\ LET r == preq[q]
         new == IF r.post \in DOMAIN posts
                THEN [posts EXCEPT ![r.post].viewCount = ViewsAfter(posts[r.post], r.hit)]
                ELSE posts
         added == IF r.post \in DOMAIN posts
                  THEN new[r.post].viewCount - posts[r.post].viewCount ELSE 0
     IN IF ~mongoUp
        THEN /\ preq' = PostFail(q, "StoreError")
             /\ UNCHANGED posts
        ELSE /\ posts' = new
             /\ preq' = [preq EXCEPT ![q] =
                   IF r.hit THEN [Returned(r, "") EXCEPT !.views = r.views + added]
                   ELSE IF r.post \notin DOMAIN posts
                   THEN Returned(r, "NotFound")
                   ELSE [r EXCEPT !.pc = "populateAuthor", !.result = new[r.post],
                                  !.views = r.views + added]]
  /\ UNCHANGED <<comments, cache, readPhase, ncall, postFrame>>

\* getPost on a miss: .populate('author', ...), the query for the author that
\* follows the update; when it rejects the call throws after the increment.
PostPopulateAuthor(q) ==
  /\ preq[q].pc = "populateAuthor"
  /\ preq' = IF mongoUp THEN [preq EXCEPT ![q].pc = "cacheSet"]
             ELSE PostFail(q, "StoreError")
  /\ UNCHANGED <<posts, comments, cache, readPhase, ncall, postFrame>>

\* listPosts and searchPosts: the find and countDocuments queries.
PostQuery(q) ==
  /\ preq[q].pc = "query"
  /\ preq' = IF mongoUp
             THEN [preq EXCEPT ![q].pc = "cacheSet",
                               ![q].result = PaginatedPosts(posts, preq[q].params)]
             ELSE PostFail(q, "StoreError")
  /\ UNCHANGED <<posts, comments, cache, readPhase, ncall, postFrame>>

\* await cacheService.set(cacheKey, result, ttl), then the call returns.
PostCacheSet(q) ==
  /\ preq[q].pc = "cacheSet"
  /\ LET r == [preq[q] EXCEPT !.cacheDown = @ \/ ~redisUp]
     IN IF CacheRaises("set")
        THEN /\ preq' = [preq EXCEPT ![q] = Returned(r, "CacheError")]
             /\ UNCHANGED <<cache, readPhase>>
        ELSE /\ cache' = CacheSet(r.key, IF r.op = "getPost" THEN ToJSON(r.result)
                                         ELSE r.result)
             /\ preq' = [preq EXCEPT ![q] = Returned(r, "")]
             /\ readPhase' = IF r.op = "getPost" THEN readPhase
                             ELSE PhaseAfterRead(r.params)
  /\ UNCHANGED <<posts, comments, ncall, postFrame>>

\* The controller sent the response (or the error) of a call that returned.
PostRespond(q) ==
  /\ preq[q].pc = "done"
  /\ preq' = [preq EXCEPT ![q] = PostIdle]
  /\ UNCHANGED <<posts, comments, cache, readPhase, ncall, postFrame>>

\* Redis drops a cached entry whose TTL elapsed.
CacheExpire(key) ==
  /\ key \in CachedKeys(cache)
  /\ cache' = CacheDelete(cache, {key})
  /\ UNCHANGED <<posts, comments, preq, readPhase, ncall, postFrame>>


(***************************************************************************)
(* A client that fetches pages 1, 2, ... of listPosts with a fixed filter  *)
(* and page size until hasMore is false, collecting the post ids.          *)
(***************************************************************************)
MaxRuns == 2

PagerIdle == [state |-> "idle", params |-> NoParams, page |-> 0, ids |-> <<>>,
              store |-> <<>>, cold |-> FALSE, runs |-> 0]

\* The client starts: page = 1, hasMore = true, no id collected.  The stored
\* posts and whether any key of the cache is set are remembered.
PagerStart(status, limit) ==
  /\ pager.state # "paging"
  /\ pager.runs < MaxRuns
  /\ pager' = [state |-> "paging",
               params |-> [NoParams EXCEPT !.kind = "list", !.status = status,
                                           !.limit = limit],
               page |-> 1, ids |-> <<>>, store |-> posts,
               cold |-> CachedKeys(cache) = {}, runs |-> pager.runs + 1]
  /\ UNCHANGED <<envVars, presenceVars, gatewayVars, busVars, chatVars, notifVars,
                 authVars, opsVars, posts, comments, cache, preq, readPhase, postCalls>>

\* await postService.listPosts(filters, { page, limit: pageSize }), up to its
\* first await.
PagerFetch(q, i) ==
  /\ pager.state = "paging"
  /\ StartRead(q, i, [pager.params EXCEPT !.page = pager.page])

\* The call returned: the ids of the page are collected, hasMore is taken from
\* the result and the page number advances.  A call that threw ends the loop.
PagerCollect(q) ==
  /\ pager.state = "paging"
  /\ preq[q].pc = "done"
  /\ LET r == preq[q]
     IN pager' =
          IF r.error # "" THEN [pager EXCEPT !.state = "failed"]
          ELSE [pager EXCEPT
                  !.ids = @ \o [n \in DOMAIN r.result.posts |-> r.result.posts[n].id],
                  !.page = @ + 1,
                  !.state = IF r.result.hasMore THEN "paging" ELSE "done"]
  /\ preq' = [preq EXCEPT ![q] = PostIdle]
  /\ UNCHANGED <<envVars, presenceVars, gatewayVars, busVars, chatVars, notifVars,
                 authVars, opsVars, posts, comments, cache, readPhase, postCalls>>
(***************************************************************************)
(* Authentication service (AuthService)                                    *)
(***************************************************************************)
MaxAccounts == 1
MaxTokens == 3
MaxClock == 1

\* login keeps the five refresh tokens pushed last.
TokenLimit == 5

AuthCallers == {"a1", "a2"}
Emails == {"a@x", "b@x"}
Passwords == {"pw", "wrong"}

\* A refresh token is the signature of its payload: the user, whose email and
\* role follow from it, and the second it was issued in (iat, and exp with it).
NoToken == <<>>
Garbage == <<"garbage">>

\* jwt.sign(payload, config.jwt.refreshSecret, { expiresIn }) at second `now`.
generateRefreshToken(userId, now) == <<userId, now>>

\* jwt.verify(refreshToken, config.jwt.refreshSecret) returns the payload: the
\* token was signed by the service (its expiry lies beyond the seconds followed).
VerifiesRefreshToken(token) == Len(token) = 2

NoError == [name |-> "", message |-> ""]
AuthenticationError(message) == [name |-> "AuthenticationError", message |-> message]
ConflictError(message) == [name |-> "ConflictError", message |-> message]
NotFoundError(message) == [name |-> "NotFoundError", message |-> message]
StoreError == [name |-> "MongoError", message |-> "store unavailable"]
VersionError == [name |-> "VersionError", message |-> "No matching document found"]

\* `write` is what save() sends for refreshTokens: nothing, the $push of the
\* token pushed, or the $set of the array assigned; `stale` tells that the
\* document was saved by another call since this call read it (its __v moved).
AuthIdle == [op |-> "none", pc |-> "idle", email |-> "", password |-> "",
             token |-> NoToken, user |-> NoId, snap |-> <<>>, result |-> NoToken,
             error |-> NoError, write |-> "none", stale |-> FALSE]

AuthRunning(a) == acall[a].pc \notin {"idle", "done"}

AuthThrow(a, error) ==
  acall' = [acall EXCEPT ![a].pc = "done", ![a].error = error, ![a].snap = <<>>,
                         ![a].result = NoToken, ![a].write = "none",
                         ![a].stale = FALSE]

AuthReturn(a) ==
  acall' = [acall EXCEPT ![a].pc = "done", ![a].snap = <<>>, ![a].write = "none",
                         ![a].stale = FALSE]

\* User.findOne({ email })
FindByEmail(email) == {k \in DOMAIN accounts : accounts[k].email = email}

\* refreshTokens.slice(-5) once more than five are held.
LastTokens(tokens) ==
  IF Len(tokens) > TokenLimit
  THEN SubSeq(tokens, Len(tokens) - TokenLimit + 1, Len(tokens))
  ELSE tokens

authFrame == <<envVars, presenceVars, gatewayVars, busVars, chatVars, notifVars, postVars, opsVars>>

\* register(data), the code up to `await User.findOne`.
Register(a, email, password) ==
  /\ ~AuthRunning(a)
  /\ acall' = [acall EXCEPT ![a] =
       [AuthIdle EXCEPT !.op = "register", !.pc = "regFind", !.email = email,
                        !.password = password]]
  /\ UNCHANGED <<accounts, clock, rotated, authFrame>>

\* await User.findOne({ $or: [{ email }, { username }] })
RegisterFindOne(a) ==
  /\ acall[a].pc = "regFind"
  /\ IF ~mongoUp THEN AuthThrow(a, StoreError)
     ELSE IF FindByEmail(acall[a].email) # {}
     THEN AuthThrow(a, ConflictError("Email already registered"))
     ELSE acall' = [acall EXCEPT ![a].pc = "regCreate"]
  /\ UNCHANGED <<accounts, clock, rotated, authFrame>>

\* await User.create(...), then the tokens are generated and one is pushed.
RegisterCreate(a) ==
  /\ acall[a].pc = "regCreate"
  /\ IF mongoUp
     THEN /\ accounts' = Append(accounts,
                 [email |-> acall[a].email, password |-> acall[a].password,
                  refreshTokens |-> <<>>])
          /\ acall' = [acall EXCEPT ![a].pc = "save",
                                    ![a].user = Len(accounts) + 1,
                                    ![a].result =
                                      generateRefreshToken(Len(accounts) + 1, clock),
                                    ![a].snap =
                                      <<generateRefreshToken(Len(accounts) + 1, clock)>>,
                                    ![a].write = "push"]
     ELSE /\ AuthThrow(a, StoreError)
          /\ UNCHANGED accounts
  /\ UNCHANGED <<clock, rotated, authFrame>>

\* save() of an array that was assigned sends $set with the __v read in its
\* filter and finds no document when __v has moved; a $push carries no __v.
SaveConflicts(r) == r.write = "set" /\ r.stale

\* The refreshTokens save() leaves in the store.
SavedTokens(r, stored) ==
  IF r.write = "set" THEN r.snap
  ELSE IF r.write = "push" THEN Append(stored, r.result)
  ELSE stored

\* The calls that hold the document of `user` in memory.
HoldsDocument(b, user) == acall[b].pc \in {"compare", "save"} /\ acall[b].user = user

\* await user.save() of register, login, refreshToken and logout: the
\* modification of refreshTokens is written and __v is incremented.
AuthSave(a) ==
  /\ acall[a].pc = "save"
  /\ IF ~mongoUp
     THEN /\ AuthThrow(a, StoreError)
          /\ UNCHANGED <<accounts, rotated>>
     ELSE IF SaveConflicts(acall[a])
     THEN /\ AuthThrow(a, VersionError)
          /\ UNCHANGED <<accounts, rotated>>
     ELSE LET r == acall[a]
          IN /\ accounts' = [accounts EXCEPT ![r.user].refreshTokens =
                                SavedTokens(r, accounts[r.user].refreshTokens)]
             /\ rotated' = IF r.op = "refreshToken"
                           THEN rotated \cup {r.token} ELSE rotated
             /\ acall' = [b \in AuthCallers |->
                  IF b = a
                  THEN [r EXCEPT !.pc = "done", !.snap = <<>>, !.write = "none",
                                 !.stale = FALSE]
                  ELSE IF r.write # "none" /\ HoldsDocument(b, r.user)
                  THEN [acall[b] EXCEPT !.stale = TRUE]
                  ELSE acall[b]]
  /\ UNCHANGED <<clock, authFrame>>

\* login(data), the code up to `await User.findOne`.
Login(a, email, password) ==
  /\ ~AuthRunning(a)
  /\ acall' = [acall EXCEPT ![a] =
       [AuthIdle EXCEPT !.op = "login", !.pc = "loginFind", !.email = email,
                        !.password = password]]
  /\ UNCHANGED <<accounts, clock, rotated, authFrame>>

\* await User.findOne({ email: data.email }).select('+password +refreshTokens')
LoginFindOne(a) ==
  /\ acall[a].pc = "loginFind"
  /\ IF ~mongoUp THEN AuthThrow(a, StoreError)
     ELSE IF FindByEmail(acall[a].email) = {}
     THEN AuthThrow(a, AuthenticationError(
                         "No account found with this email. Ready to join us?"))
     ELSE LET k == CHOOSE j \in FindByEmail(acall[a].email) : TRUE
          IN acall' = [acall EXCEPT ![a].pc = "compare", ![a].user = k,
                                    ![a].snap = accounts[k].refreshTokens]
  /\ UNCHANGED <<accounts, clock, rotated, authFrame>>

\* await user.comparePassword(data.password), then the tokens are generated,
\* one is pushed and the five pushed last are kept.
LoginCompare(a) ==
  /\ acall[a].pc = "compare"
  /\ IF acall[a].password # accounts[acall[a].user].password
     THEN AuthThrow(a, AuthenticationError("Incorrect password. Please try again."))
     ELSE LET token == generateRefreshToken(acall[a].user, clock)
          IN acall' = [acall EXCEPT ![a].pc = "save", ![a].result = token,
                                    ![a].snap = LastTokens(Append(acall[a].snap, token)),
                                    ![a].write =
                                      IF Len(acall[a].snap) + 1 > TokenLimit
                                      THEN "set" ELSE "push"]
  /\ UNCHANGED <<accounts, clock, rotated, authFrame>>

\* refreshToken(refreshToken), the code up to `await User.findById`.
RefreshToken(a, token) ==
  /\ ~AuthRunning(a)
  /\ acall' = [acall EXCEPT ![a] =
       IF VerifiesRefreshToken(token)
       THEN [AuthIdle EXCEPT !.op = "refreshToken", !.pc = "refFind", !.token = token,
                             !.user = token[1]]
       ELSE [AuthIdle EXCEPT !.op = "refreshToken", !.pc = "done", !.token = token,
                             !.error = AuthenticationError("Invalid refresh token")]]
  /\ UNCHANGED <<accounts, clock, rotated, authFrame>>

\* await User.findById(decoded.userId), the includes check, then the new tokens
\* are generated and the new one replaces the old one in memory.
RefreshFindById(a) ==
  /\ acall[a].pc = "refFind"
  /\ IF ~mongoUp THEN AuthThrow(a, StoreError)
     ELSE IF acall[a].user \notin DOMAIN accounts
     THEN AuthThrow(a, AuthenticationError("Invalid refresh token"))
     ELSE IF acall[a].token \notin Range(accounts[acall[a].user].refreshTokens)
     THEN AuthThrow(a, AuthenticationError("Invalid refresh token"))
     ELSE LET token == generateRefreshToken(acall[a].user, clock)
              kept == Filter(accounts[acall[a].user].refreshTokens, acall[a].token)
          IN acall' = [acall EXCEPT ![a].pc = "save", ![a].result = token,
                                    ![a].snap = Append(kept, token),
                                    ![a].write = "set"]
  /\ UNCHANGED <<accounts, clock, rotated, authFrame>>

\* logout(userId, refreshToken), the code up to `await User.findById`.
Logout(a, userId, token) ==
  /\ ~AuthRunning(a)
  /\ acall' = [acall EXCEPT ![a] =
       [AuthIdle EXCEPT !.op = "logout", !.pc = "outFind", !.token = token,
                        !.user = userId]]
  /\ UNCHANGED <<accounts, clock, rotated, authFrame>>

\* await User.findById(userId), then the token is filtered out in memory.
LogoutFindById(a) ==
  /\ acall[a].pc = "outFind"
  /\ IF ~mongoUp THEN AuthThrow(a, StoreError)
     ELSE IF acall[a].user \notin DOMAIN accounts
     THEN AuthThrow(a, NotFoundError("User"))
     ELSE LET kept == Filter(accounts[acall[a].user].refreshTokens, acall[a].token)
          IN acall' = [acall EXCEPT ![a].pc = "save", ![a].snap = kept,
                         ![a].write =
                           IF kept = accounts[acall[a].user].refreshTokens
                           THEN "none" ELSE "set"]
  /\ UNCHANGED <<accounts, clock, rotated, authFrame>>

\* A second passes.
Tick ==
  /\ clock < MaxClock
  /\ clock' = clock + 1
  /\ UNCHANGED <<accounts, acall, rotated, authFrame>>

AuthInit ==
  /\ accounts = <<>>
  /\ clock = 0
  /\ acall = [a \in AuthCallers |-> AuthIdle]
  /\ rotated = {}

(***************************************************************************)
(* Issue service (IssueService)                                            *)
(***************************************************************************)
MaxIssues == 1

IssueCallers == {"i1", "i2"}

\* doc is the status and closedAt of the document a call loaded, with the
\* changes the call made to it since.
NoDoc == [status |-> "none", closedAt |-> Undefined, modified |-> {}]

IssueIdle == [op |-> "none", pc |-> "idle", inst |-> "none", issue |-> NoId,
              user |-> Undefined, snap |-> <<>>, added |-> FALSE, error |-> "",
              status |-> "none", doc |-> NoDoc]

IssueRunning(c) == icall[c].pc \notin {"idle", "done"}

IssueThrow(c, error) ==
  icall' = [icall EXCEPT ![c].pc = "done", ![c].error = error, ![c].snap = <<>>,
                         ![c].doc = NoDoc]

issueFrame == <<envVars, presenceVars, gatewayVars, busVars, chatVars, notifications,
                postVars, authVars, sweep, server, lastPublish, lastHandled>>

\* createIssue(userId, data): await issue.save()
CreateIssue(c, i, userId) ==
  /\ ~IssueRunning(c)
  /\ IF mongoUp
     THEN /\ issues' = Append(issues, [creator |-> userId, assignees |-> <<>>,
                                         status |-> "open", closedAt |-> Undefined])
          /\ icall' = [icall EXCEPT ![c] =
               [IssueIdle EXCEPT !.op = "createIssue", !.pc = "done", !.inst = i,
                                 !.issue = Len(issues) + 1, !.user = userId]]
     ELSE /\ icall' = [icall EXCEPT ![c] =
               [IssueIdle EXCEPT !.op = "createIssue", !.pc = "done", !.inst = i,
                                 !.user = userId, !.error = "StoreError"]]
          /\ UNCHANGED issues
  /\ UNCHANGED <<ncall, issueFrame>>

\* assignIssue(issueId, data), the code up to `await Issue.findById` of
\* getIssueById: both ids are validated.
AssignIssue(c, i, issueId, assigneeId) ==
  /\ ~IssueRunning(c)
  /\ icall' = [icall EXCEPT ![c] =
       IF IsValidUserId(assigneeId) /\ IsValidObjectId(issueId)
       THEN [IssueIdle EXCEPT !.op = "assignIssue", !.pc = "findById", !.inst = i,
                              !.issue = issueId, !.user = assigneeId]
       ELSE [IssueIdle EXCEPT !.op = "assignIssue", !.pc = "done", !.inst = i,
                              !.issue = issueId, !.user = assigneeId,
                              !.error = "ValidationError"]]
  /\ UNCHANGED <<issues, ncall, issueFrame>>

\* await Issue.findById(issueId) of getIssueById, then the isAlreadyAssigned
\* test and the push.
AssignFindById(c) ==
  /\ icall[c].pc = "findById"
  /\ LET r == icall[c]
     IN IF ~mongoUp THEN IssueThrow(c, "StoreError")
        ELSE IF r.issue \notin DOMAIN issues THEN IssueThrow(c, "NotFound")
        ELSE IF r.user \in {issues[r.issue].assignees[k] :
                              k \in DOMAIN issues[r.issue].assignees}
        THEN icall' = [icall EXCEPT ![c].pc = "populate"]
        ELSE icall' = [icall EXCEPT ![c].pc = "save",
                         ![c].snap = Append(issues[r.issue].assignees, r.user)]
  /\ UNCHANGED <<issues, ncall, issueFrame>>

\* createAssignmentNotification(assigneeId, issueId, title): the data of the
\* createNotification call it makes.
AssignmentNotification(assigneeId) ==
  [recipientId |-> assigneeId, type |-> "issue_assigned", actorId |-> assigneeId]

\* await issue.save() of assignIssue (the push is sent as $push), then
\* createAssignmentNotification is started without being awaited.
AssignSave(c, n) ==
  /\ icall[c].pc = "save"
  /\ IF mongoUp
     THEN /\ issues' = [issues EXCEPT ![icall[c].issue].assignees =
                          Append(@, icall[c].user)]
          /\ icall' = [icall EXCEPT ![c].pc = "populate", ![c].added = TRUE,
                                    ![c].snap = <<>>]
          /\ ncall' = [ncall EXCEPT ![n] =
               NotifBegin([NotifIdle EXCEPT !.op = "create", !.inst = icall[c].inst,
                                            !.detached = TRUE],
                          <<AssignmentNotification(icall[c].user)>>, "none")]
     ELSE /\ IssueThrow(c, "StoreError")
          /\ UNCHANGED <<issues, ncall>>
  /\ UNCHANGED issueFrame

\* await issue.populate('assignees', ...), then the issue is returned.
AssignPopulate(c) ==
  /\ icall[c].pc = "populate"
  /\ IF mongoUp THEN icall' = [icall EXCEPT ![c].pc = "done"]
     ELSE IssueThrow(c, "StoreError")
  /\ UNCHANGED <<issues, ncall, issueFrame>>

IssueStatuses == {"open", "in-progress", "closed"}

\* validTransitions of issueSchema.methods.canTransitionTo
validTransitions ==
  [s \in IssueStatuses |->
     CASE s = "open" -> {"in-progress", "closed"}
       [] s = "in-progress" -> {"open", "closed"}
       [] s = "closed" -> {"open"}]

\* issue.canTransitionTo(newStatus), on the loaded document
canTransitionTo(doc, newStatus) ==
  doc.status \in DOMAIN validTransitions /\ newStatus \in validTransitions[doc.status]

\* issueSchema.pre('save'): closedAt is set when a modified status is closed
\* and the document has none, cleared when a modified status is not closed and
\* the document has one.
IssuePreSave(doc) ==
  IF "status" \in doc.modified /\ doc.status = "closed" /\ doc.closedAt = Undefined
  THEN [doc EXCEPT !.closedAt = "date", !.modified = @ \cup {"closedAt"}]
  ELSE IF "status" \in doc.modified /\ doc.status # "closed" /\ doc.closedAt # Undefined
  THEN [doc EXCEPT !.closedAt = Undefined, !.modified = @ \cup {"closedAt"}]
  ELSE doc

\* updateIssueStatus(issueId, data), the code up to `await Issue.findById` of
\* getIssueById, which validates the id.
UpdateIssueStatus(c, i, issueId, status) ==
  /\ ~IssueRunning(c)
  /\ icall' = [icall EXCEPT ![c] =
       IF IsValidObjectId(issueId)
       THEN [IssueIdle EXCEPT !.op = "updateIssueStatus", !.pc = "updateFindById",
                              !.inst = i, !.issue = issueId, !.status = status]
       ELSE [IssueIdle EXCEPT !.op = "updateIssueStatus", !.pc = "done", !.inst = i,
                              !.issue = issueId, !.status = status,
                              !.error = "ValidationError"]]
  /\ UNCHANGED <<issues, ncall, issueFrame>>

\* await Issue.findById(issueId) of getIssueById, then canTransitionTo, the
\* assignment issue.status = data.status and the pre('save') hook of issue.save().
UpdateFindById(c) ==
  /\ icall[c].pc = "updateFindById"
  /\ LET r == icall[c]
     IN IF ~mongoUp THEN IssueThrow(c, "StoreError")
        ELSE IF r.issue \notin DOMAIN issues THEN IssueThrow(c, "NotFound")
        ELSE LET doc == [status |-> issues[r.issue].status,
                         closedAt |-> issues[r.issue].closedAt, modified |-> {}]
             IN IF ~canTransitionTo(doc, r.status) THEN IssueThrow(c, "ValidationError")
                ELSE icall' = [icall EXCEPT ![c].pc = "updateSave",
                                 ![c].doc = IssuePreSave([doc EXCEPT !.status = r.status,
                                                                     !.modified = {"status"}])]
  /\ UNCHANGED <<issues, ncall, issueFrame>>

\* await issue.save() of updateIssueStatus: the modified paths are written.
UpdateSave(c) ==
  /\ icall[c].pc = "updateSave"
  /\ LET r == icall[c]
     IN IF mongoUp
        THEN /\ LET stored == issues[r.issue]
                IN issues' = [issues EXCEPT ![r.issue] =
                     [f \in DOMAIN stored |->
                        IF f \in r.doc.modified THEN r.doc[f] ELSE stored[f]]]
             /\ icall' = [icall EXCEPT ![c].pc = "done"]
        ELSE /\ IssueThrow(c, "StoreError")
             /\ UNCHANGED issues
  /\ UNCHANGED <<ncall, issueFrame>>

(***************************************************************************)
(* Admin service: hideContent archives a post or deletes a comment.        *)
(***************************************************************************)
Deleted == [post |-> NoId, author |-> Undefined]

\* hideContent(adminId, { contentType, contentId, reason }), the code up to
\* `await Post.findById` or `await Comment.findById`.
HideContent(q, i, contentType, contentId) ==
  /\ ~PostRunning(q)
  /\ preq' = [preq EXCEPT ![q] =
       IF contentType \in {"post", "comment"}
       THEN [PostIdle EXCEPT !.op = "hideContent", !.inst = i, !.post = contentId,
                             !.pc = IF contentType = "post" THEN "hideFindPost"
                                    ELSE "hideFindComment"]
       ELSE [PostIdle EXCEPT !.op = "hideContent", !.pc = "done", !.inst = i,
                             !.post = contentId, !.error = "ValidationError"]]
  /\ postCalls' = postCalls + 1
  /\ UNCHANGED <<posts, comments, cache, readPhase, ncall, startFrame>>

\* await Post.findById(contentId)
HideFindPost(q) ==
  /\ preq[q].pc = "hideFindPost"
  /\ preq' = IF ~mongoUp THEN PostFail(q, "StoreError")
             ELSE IF preq[q].post \notin DOMAIN posts THEN PostFail(q, "NotFound")
             ELSE [preq EXCEPT ![q].pc = "hideSave"]
  /\ UNCHANGED <<posts, comments, cache, readPhase, ncall, postFrame>>

\* post.status = 'archived'; await post.save()
HideSavePost(q) ==
  /\ preq[q].pc = "hideSave"
  /\ LET new == [posts EXCEPT ![preq[q].post].status = "archived"]
     IN IF mongoUp
        THEN /\ posts' = new
             /\ preq' = [preq EXCEPT ![q].pc = "audit", ![q].changed = new # posts]
        ELSE /\ preq' = PostFail(q, "StoreError")
             /\ UNCHANGED posts
  /\ UNCHANGED <<comments, cache, readPhase, ncall, postFrame>>

\* await Comment.findById(contentId)
HideFindComment(q) ==
  /\ preq[q].pc = "hideFindComment"
  /\ preq' = IF ~mongoUp THEN PostFail(q, "StoreError")
             ELSE IF preq[q].post \notin DOMAIN comments
                     \/ comments[preq[q].post] = Deleted
             THEN PostFail(q, "NotFound")
             ELSE [preq EXCEPT ![q].pc = "hideDelete",
                               ![q].snap = comments[preq[q].post]]
  /\ UNCHANGED <<posts, comments, cache, readPhase, ncall, postFrame>>

\* await Comment.findByIdAndDelete(contentId)
HideDeleteComment(q) ==
  /\ preq[q].pc = "hideDelete"
  /\ IF mongoUp
     THEN /\ comments' = [comments EXCEPT ![preq[q].post] = Deleted]
          /\ preq' = [preq EXCEPT ![q].pc = "hideDec"]
     ELSE /\ preq' = PostFail(q, "StoreError")
          /\ UNCHANGED comments
  /\ UNCHANGED <<posts, cache, readPhase, ncall, postFrame>>

\* await Post.findByIdAndUpdate(comment.post, { $inc: { commentCount: -1 } })
HideDecCount(q) ==
  /\ preq[q].pc = "hideDec"
  /\ IF mongoUp
     THEN /\ posts' = [posts EXCEPT ![preq[q].snap.post].commentCount = @ - 1]
          /\ preq' = [preq EXCEPT ![q].pc = "audit", ![q].changed = TRUE,
                                  ![q].post = preq[q].snap.post, ![q].snap = Null]
     ELSE /\ preq' = PostFail(q, "StoreError")
          /\ UNCHANGED posts
  /\ UNCHANGED <<comments, cache, readPhase, ncall, postFrame>>

\* await auditLog(...), then hideContent returns.
HideAudit(q) ==
  /\ preq[q].pc = "audit"
  /\ preq' = [preq EXCEPT ![q] = Returned(preq[q], IF mongoUp THEN "" ELSE "StoreError")]
  /\ UNCHANGED <<posts, comments, cache, readPhase, ncall, postFrame>>

(***************************************************************************)
(* cleanupStalePresence                                                    *)
(***************************************************************************)
SweepIdle == [pc |-> "idle", todo |-> {}, cur |-> Undefined, ok |-> TRUE,
              seen |-> [u \in Users |-> NoRec]]

SweepRunning == sweep.pc \notin {"idle", "done"}

\* The call ends: the loop is over, or an error was caught and logged.
SweepEnd(ok) == [sweep EXCEPT !.pc = "done", !.todo = {}, !.cur = Undefined, !.ok = ok]

\* The loop goes on with the members not yet visited.
SweepOn(todo) ==
  IF todo = {} THEN SweepEnd(TRUE)
  ELSE [sweep EXCEPT !.pc = "exists", !.todo = todo, !.cur = Undefined]

sweepFrame == <<envVars, presence, pcall, lastStarted, lastCompleted, gatewayVars, busVars,
                chatVars, notifVars, postVars, authVars, issues, icall, server,
                lastPublish, lastHandled>>

\* cleanupStalePresence(), the code up to `await redis.sMembers`.
CleanupStalePresence ==
  /\ ~SweepRunning
  /\ sweep' = [SweepIdle EXCEPT !.pc = "sMembers"]
  /\ UNCHANGED <<onlineSet, sweepFrame>>

\* await redis.sMembers(ONLINE_USERS_SET); the records as they are now are
\* remembered.
SweepMembers ==
  /\ sweep.pc = "sMembers"
  /\ sweep' = IF redisUp THEN [SweepOn(onlineSet) EXCEPT !.seen = presence]
              ELSE SweepEnd(FALSE)
  /\ UNCHANGED <<onlineSet, sweepFrame>>

\* A faulty variant of KeyExists: every key is reported to exist.
KeyExistsAlways(u) == TRUE

\* redis.exists(`presence:user:${userId}`)
KeyExists(u) == presence[u] # NoRec

\* await redis.exists(presenceKey) for the next member, in the order of the
\* reply, which Redis does not fix.
SweepExists(u) ==
  /\ sweep.pc = "exists"
  /\ u \in sweep.todo
  /\ sweep' = IF ~redisUp THEN SweepEnd(FALSE)
              ELSE IF ~KeyExists(u)
              THEN [sweep EXCEPT !.pc = "sRem", !.cur = u]
              ELSE SweepOn(sweep.todo \ {u})
  /\ UNCHANGED <<onlineSet, sweepFrame>>

\* await redis.sRem(ONLINE_USERS_SET, userId)
SweepRem ==
  /\ sweep.pc = "sRem"
  /\ IF redisUp
     THEN /\ onlineSet' = onlineSet \ {sweep.cur}
          /\ sweep' = SweepOn(sweep.todo \ {sweep.cur})
     ELSE /\ sweep' = SweepEnd(FALSE)
          /\ UNCHANGED onlineSet
  /\ UNCHANGED sweepFrame

(***************************************************************************)
(* The server process: signals, gracefulShutdown, disconnectRedis          *)
(***************************************************************************)
RedisClients == <<"client", "publisher", "subscriber">>

ServerRunning == [state |-> "running", pc |-> "none", cause |-> "none",
                  todo |-> <<>>, open |-> {"client", "publisher", "subscriber"},
                  code |-> 0]

\* The listeners of SIGTERM and SIGINT in the order they were registered:
\* app.ts, imported first, registers one that calls process.exit(0); then
\* startServer registers gracefulShutdown.
SignalListeners == <<"exit", "gracefulShutdown">>

\* process.exit(code): the process ends where it stands.
Exited(srv, code) == [srv EXCEPT !.state = "exited", !.pc = "none", !.todo = <<>>,
                                 !.code = code]

\* gracefulShutdown(): server.close(callback) and the 10 s timer are set up.
Closing(srv) == [srv EXCEPT !.state = "closing", !.pc = "close"]

\* The listeners run one after the other; process.exit does not return.
RECURSIVE RunListeners(_, _)
RunListeners(srv, listeners) ==
  IF listeners = <<>> \/ srv.state = "exited" THEN srv
  ELSE RunListeners(IF Head(listeners) = "exit" THEN Exited(srv, 0)
                    ELSE IF srv.state = "running" THEN Closing(srv) ELSE srv,
                    Tail(listeners))

serverFrame == <<envVars, presenceVars, gatewayVars, busQ, lastEmit, traceEmits, chatVars,
                 notifVars, postVars, authVars, issues, icall, sweep, lastPublish,
                 lastHandled>>

\* The process of instance i receives SIGTERM or SIGINT.
Signal(i, sig) ==
  /\ server[i].state # "exited"
  /\ server' = [server EXCEPT ![i] = RunListeners([@ EXCEPT !.cause = sig], SignalListeners)]
  /\ UNCHANGED <<subscribed, serverFrame>>

\* An 'unhandledRejection' or 'uncaughtException': its listener calls
\* gracefulShutdown.
Crash(i) ==
  /\ server[i].state = "running"
  /\ server' = [server EXCEPT ![i] = Closing([@ EXCEPT !.cause = "exception"])]
  /\ UNCHANGED <<subscribed, serverFrame>>

\* The callback of server.close runs: cleanupPubSub starts with the keys of
\* activeChannels.
ServerClosed(i) ==
  /\ server[i].pc = "close"
  /\ server' = [server EXCEPT ![i].pc = "unsubscribe",
                              ![i].todo = SelectSeq(<<BroadcastChannel, RoomChannel,
                                                      UserChannel>>,
                                                    LAMBDA c : c \in subscribed[i])]
  /\ UNCHANGED <<subscribed, serverFrame>>

\* cleanupPubSub: await unsubscribeFromChannel(channel) for the next channel;
\* an error ends the loop and is logged.  Then disconnectDatabase.
ShutdownUnsubscribe(i) ==
  /\ server[i].pc = "unsubscribe"
  /\ IF server[i].todo = <<>>
     THEN /\ server' = [server EXCEPT ![i].pc = "database"]
          /\ UNCHANGED subscribed
     ELSE IF busUp
     THEN /\ subscribed' = [subscribed EXCEPT ![i] = @ \ {Head(server[i].todo)}]
          /\ server' = [server EXCEPT ![i].todo = Tail(@)]
     ELSE /\ server' = [server EXCEPT ![i].pc = "database", ![i].todo = <<>>]
          /\ UNCHANGED subscribed
  /\ UNCHANGED serverFrame

\* await disconnectDatabase(); disconnectRedis starts with the three clients.
ShutdownDatabase(i) ==
  /\ server[i].pc = "database"
  /\ server' = [server EXCEPT ![i].pc = "quit", ![i].todo = RedisClients]
  /\ UNCHANGED <<subscribed, serverFrame>>

\* Whether quit() of a client rejects: its connection is down.
QuitRejects(client) == IF client = "client" THEN ~redisUp ELSE ~busUp

\* disconnectRedis: await quit() of the next client; an error is logged and
\* ends disconnectRedis.  After it, process.exit(0).
ShutdownQuit(i) ==
  /\ server[i].pc = "quit"
  /\ LET srv == server[i]
     IN server' = [server EXCEPT ![i] =
          IF srv.todo = <<>> THEN Exited(srv, 0)
          ELSE IF QuitRejects(Head(srv.todo)) THEN [srv EXCEPT !.todo = <<>>]
          ELSE [srv EXCEPT !.todo = Tail(srv.todo),
                           !.open = srv.open \ {Head(srv.todo)}]]
  /\ UNCHANGED <<subscribed, serverFrame>>

\* The timer of gracefulShutdown fires after 10 seconds: process.exit(1).
ForceExit(i) ==
  /\ server[i].state = "closing"
  /\ server' = [server EXCEPT ![i] = Exited(@, 1)]
  /\ UNCHANGED <<subscribed, serverFrame>>

(***************************************************************************)
(* publishMessage as its caller sees it                                    *)
(***************************************************************************)
\* An object that refers to itself: JSON.stringify throws a TypeError on it.
Circular == [circular |-> TRUE]

Serialises(message) == message.data # Circular

NoPublish == [n |-> 0, channel |-> "none", message |-> [none |-> TRUE],
              outcome |-> "none"]

\* A faulty variant of PublishRaises: the error is logged and not thrown.
PublishRaisesNever(channel, message) == FALSE

\* Whether publishMessage throws: JSON.stringify or publisher.publish failed,
\* and the catch block logs the error and throws it again.
PublishRaises(channel, message) == ~Serialises(message) \/ ~busUp

\* A module calls publishMessage(channel, message) and gets its outcome.
PublishMessage(channel, message) ==
  /\ busQ' = IF Serialises(message) THEN publishMessage(channel, message) ELSE busQ
  /\ lastPublish' = [n |-> 1 - lastPublish.n, channel |-> channel, message |-> message,
                     outcome |-> IF PublishRaises(channel, message) THEN "raised"
                                 ELSE "ok"]
  /\ UNCHANGED <<envVars, presenceVars, gatewayVars, subscribed, lastEmit, traceEmits,
                 chatVars, notifVars, postVars, authVars, issues, icall, sweep, server,
                 lastHandled>>

OpsInit ==
  /\ issues = <<>>
  /\ icall = [c \in IssueCallers |-> IssueIdle]
  /\ sweep = SweepIdle
  /\ server = [i \in Instances |-> ServerRunning]
  /\ lastPublish = NoPublish

(***************************************************************************)
(* Initial states                                                          *)
(***************************************************************************)
ActiveCalls == {sr \in Sockets \X Roles : Active(sr[1], sr[2])}
CallsBelow(n) == Cardinality(ActiveCalls) < n

EnvInit == redisUp = TRUE /\ busUp = TRUE /\ mongoUp = TRUE

BusInit ==
  /\ subscribed = [i \in Instances |-> Channels]
  /\ busQ = [i \in Instances |-> <<>>]
  /\ lastEmit = NoEmit
  /\ lastAck = NoAck

StoreStart ==
  /\ chats = <<>>
  /\ messages = <<>>
  /\ ccall = [p \in ChatCallers |-> ChatIdle]
  /\ notifications = <<>>
  /\ ncall = [n \in NotifCallers |-> NotifIdle]
  /\ posts = <<>>
  /\ comments = <<>>
  /\ cache = [k \in CacheKeySpace |-> Null]
  /\ preq = [q \in PostCallers |-> PostIdle]
  /\ readPhase = [p \in ReadParams |-> "none"]
  /\ postCalls = 0
  /\ AuthInit
  /\ pager = PagerIdle
  /\ OpsInit

StoreInit == StoreStart /\ lastHandled = NoHandled

\* A started server without connections.
NoConnections ==
  /\ presence = [u \in Users |-> NoRec]
  /\ onlineSet = {}
  /\ sock = [s \in Sockets |-> NoSock]
  /\ pcall = [s \in Sockets |-> [r \in Roles |-> Idle]]
  /\ lastStarted = [u \in Users |-> "none"]
  /\ lastCompleted = [u \in Users |-> "none"]
  /\ offlineCalled = [s \in Sockets |-> FALSE]

\* Three clients whose connection handlers ran to completion: user u1 on both
\* instances, user u2 on instance A.
SockUser == [s \in Sockets |-> IF s = "s2" THEN "u2" ELSE "u1"]

Connected ==
  /\ presence = [u \in Users |->
                   [status |-> "online", socketId |-> IF u = "u2" THEN "s2" ELSE "s3"]]
  /\ onlineSet = Users
  /\ sock = [s \in Sockets |->
               [state |-> "connected", user |-> SockUser[s],
                rooms |-> {UserRoom(SockUser[s]), NotificationRoom(SockUser[s])},
                hpc |-> "ready", token |-> "valid"]]
  /\ pcall = [s \in Sockets |-> [r \in Roles |-> Idle]]
  /\ lastStarted = [u \in Users |-> "online"]
  /\ lastCompleted = [u \in Users |-> "online"]
  /\ offlineCalled = [s \in Sockets |-> FALSE]

(***************************************************************************)
(* Presence specification: connections come and go on a started server.    *)
(***************************************************************************)
PresenceSockets == {"s2", "s3"}
PresenceUsers == {"u1"}

Init == EnvInit /\ BusInit /\ StoreInit /\ NoConnections /\ traceEmits = FALSE

Next ==
  \/ \E s \in PresenceSockets, u \in PresenceUsers, t \in Tokens :
       CallsBelow(MaxCalls) /\ Connect(s, u, t)
  \/ \E s \in PresenceSockets :
       (sock[s].hpc = "ready" => CallsBelow(MaxCalls)) /\ Disconnect(s)
  \/ \E s \in PresenceSockets :
       \E ev \in {"user_online", "user_offline", "presence:heartbeat"} :
         CallsBelow(MaxCalls) /\ ClientPresenceEvent(s, ev)
  \/ \E s \in PresenceSockets, r \in Roles : PresenceSetEx(s, r)
  \/ \E s \in PresenceSockets, r \in Roles : PresenceSetMember(s, r)
  \/ \E s \in PresenceSockets, r \in Roles :
       BusBelow(MaxPresenceQueue) /\ PresenceBroadcast(s, r)
  \/ \E s \in PresenceSockets, r \in Roles : RefreshGet(s, r)
  \/ \E s \in PresenceSockets, r \in Roles : RefreshSetEx(s, r)
  \/ \E u \in PresenceUsers : ExpirePresence(u)
  \/ \E i \in Instances : Deliver(i)
  \/ RedisFlip

Spec == Init /\ [][Next]_vars

(***************************************************************************)
(* Backplane specification: connected clients join and leave chat rooms    *)
(* and type, modules publish, instances stop and start their subscriber.   *)
(***************************************************************************)
MaxQueue == 1
BusSockets == {"s2", "s3"}
BusChats == {NoId, 1}

\* The messages modules publish: with and without the optional members.
BusMessages ==
  {PubSubMessage("announce", [text |-> "x"], room, userId) :
     room \in {Undefined, "", ChatRoom(1)}, userId \in {Undefined}}
    \cup {PubSubMessage("announce", [text |-> "x"], Undefined, "u1")}

InitBus == EnvInit /\ BusInit /\ StoreInit /\ Connected /\ traceEmits = TRUE

NextBus ==
  \/ \E s \in BusSockets, c \in BusChats : JoinChat(s, c)
  \/ \E s \in BusSockets, c \in BusChats : LeaveChat(s, c)
  \/ \E s \in BusSockets, c \in BusChats, e \in {"user_typing", "user_stop_typing"} :
       BusBelow(MaxQueue) /\ Typing(s, c, e)
  \/ \E ch \in Channels, m \in BusMessages : BusBelow(MaxQueue) /\ Publish(ch, m)
  \/ \E ch \in Channels : BusBelow(MaxQueue) /\ PublishMalformed(ch)
  \/ \E i \in Instances : Deliver(i)
  \/ \E i \in Instances : cleanupPubSub(i)
  \/ \E i \in Instances : initializePubSub(i)
  \/ BusFlip

SpecBus == InitBus /\ [][NextBus]_vars

(***************************************************************************)
(* Chat specification: connected clients of an existing direct chat join,  *)
(* leave and send.                                                         *)
(***************************************************************************)
SendChats == {NoId, 1, 2, 3}
SendContents == {"hi", " "}

SendsInFlight == Cardinality({s \in Sockets : ccall[s].op = "send" /\ ChatRunning(s)})

InitSend ==
  /\ EnvInit /\ BusInit /\ Connected /\ traceEmits = TRUE
  /\ chats = <<[type |-> "direct", participants |-> <<"u1", "u2">>, lastMessage |-> NoId],
              [type |-> "direct", participants |-> <<"u1", "u3">>, lastMessage |-> NoId]>>
  /\ messages = <<>>
  /\ ccall = [p \in ChatCallers |-> ChatIdle]
  /\ notifications = <<>>
  /\ ncall = [n \in NotifCallers |-> NotifIdle]
  /\ posts = <<>>
  /\ comments = <<>>
  /\ cache = [k \in CacheKeySpace |-> Null]
  /\ preq = [q \in PostCallers |-> PostIdle]
  /\ readPhase = [p \in ReadParams |-> "none"]
  /\ postCalls = 0
  /\ AuthInit
  /\ pager = PagerIdle
  /\ OpsInit /\ lastHandled = NoHandled

NextSend ==
  \/ \E s \in Sockets : JoinChat(s, 1)
  \/ \E s \in Sockets : LeaveChat(s, 1)
  \/ \E s \in Sockets, c \in SendChats, t \in SendContents :
       Len(messages) + SendsInFlight < MaxMessages /\ SendMessageEvent(s, c, t)
  \/ \E s \in Sockets : SendFindById(s)
  \/ \E s \in Sockets : SendCreate(s)
  \/ \E s \in Sockets : SendSave(s)
  \/ \E s \in Sockets : SendPopulate(s)
  \/ MongoFlip

SpecSend == InitSend /\ [][NextSend]_vars

(***************************************************************************)
(* Notification specification: services on either instance create         *)
(* notifications for connected users.                                      *)
(***************************************************************************)
NotifUserIds == Users \cup {"bad"}

NotifInputs ==
  {[recipientId |-> r, actorId |-> a, type |-> "follow"] : r \in NotifUserIds, a \in NotifUserIds}

InitNotify == EnvInit /\ BusInit /\ StoreInit /\ Connected /\ traceEmits = TRUE

NextNotify ==
  \/ \E n \in NotifCallers, i \in Processes, d \in NotifInputs :
       Len(notifications) + NotifDemand < MaxNotifications /\ CreateNotification(n, i, d)
  \/ \E n \in NotifCallers : NotifSave(n)
  \/ \E n \in NotifCallers : NotifPopulate(n)
  \/ MongoFlip

SpecNotify == InitNotify /\ [][NextNotify]_vars

(***************************************************************************)
(* Post specification: one caller after the other calls PostService; the   *)
(* notification chains of a call run on after it returned.                 *)
(***************************************************************************)
PostAuthors == Users
PostUsers == Users
PostIds == 1..MaxPosts
Mentions == {{}, {"u1"}}

MaxPostCalls == 4

Quiet ==
  /\ postCalls < MaxPostCalls
  /\ \A q \in PostCallers : ~PostRunning(q)
  /\ \A n \in NotifCallers : ~NotifRunning(n)

Views == IF posts = <<>> THEN 0 ELSE posts[1].viewCount

InitPosts == EnvInit /\ BusInit /\ StoreInit /\ NoConnections /\ traceEmits = FALSE

NextPosts ==
  \/ \E u \in PostAuthors, st \in {"published", "draft"} :
       Quiet /\ Len(posts) < MaxPosts /\ StartCreatePost("q1", "A", u, st)
  \/ \E op \in PostOps, id \in PostIds \cup {BadId}, u \in PostUsers, m \in Mentions :
       /\ Quiet
       /\ op = "addComment" => Len(comments) < MaxComments
       /\ op \in {"likePost", "addComment"} =>
            Len(notifications) + 1 + Cardinality(m) <= MaxNotifications
       /\ op # "addComment" /\ id \in DOMAIN posts => posts[id].v < MaxVersion
       /\ StartPostOp("q1", "A", op, id, u, m)
  \/ \E id \in PostIds \cup {BadId} : Quiet /\ Views < MaxViews /\ StartGetPost("q1", "A", id)
  \/ \E p \in ReadParams : Quiet /\ StartRead("q1", "A", p)
  \/ PostFindById("q1")
  \/ PostSave("q1")
  \/ SaveComment("q1")
  \/ IncCommentCount("q1")
  \/ PopulateComment("q1")
  \/ PostInvalidate("q1")
  \/ PostCacheGet("q1")
  \/ IncViewCount("q1")
  \/ PostPopulateAuthor("q1")
  \/ PostQuery("q1")
  \/ PostCacheSet("q1")
  \/ PostRespond("q1")
  \/ \E k \in CacheKeySpace : CacheExpire(k)
  \/ \E n \in NotifCallers : NotifSave(n)
  \/ \E n \in NotifCallers : NotifPopulate(n)
  \/ \E n \in NotifCallers : NotifFindUsers(n)
  \/ RedisFlip

SpecPosts == InitPosts /\ [][NextPosts]_vars

(***************************************************************************)
(* Chat-service specification: one HTTP caller after the other creates or  *)
(* looks up chats.                                                         *)
(***************************************************************************)
HttpCallers == {"h1", "h2"}
ChatUsers == Users \cup {"u3"}
GroupInputs == {{}, {"u1"}, {"u2"}, {"u2", "u3"}}

InitChats == EnvInit /\ BusInit /\ StoreInit /\ NoConnections /\ traceEmits = FALSE

NextChats ==
  \/ \E p \in HttpCallers, a \in ChatUsers, b \in ChatUsers :
       /\ \A h \in HttpCallers : ~ChatRunning(h)
       /\ Len(chats) < MaxChats
       /\ StartDirectChat(p, a, b)
  \/ \E p \in HttpCallers, a \in {"u1"}, bs \in GroupInputs :
       /\ \A h \in HttpCallers : ~ChatRunning(h)
       /\ Len(chats) < MaxChats
       /\ StartGroupChat(p, a, bs)
  \/ \E p \in HttpCallers : DirectFindOne(p)
  \/ \E p \in HttpCallers : ChatCreate(p)
  \/ \E p \in HttpCallers : ChatPopulate(p)
  \/ MongoFlip

SpecChats == InitChats /\ [][NextChats]_vars

(***************************************************************************)
(* Claims about presence and the connection gateway                        *)
(***************************************************************************)
CallsOf(u) == {sr \in ActiveCalls : sock[sr[1]].user = u}

\* The calls for u have settled: none is running (setUserOnline, setUserOffline
\* or a heartbeat), and no expired member is waiting for cleanupStalePresence.
Settled(u) ==
  /\ CallsOf(u) = {}
  /\ u \in onlineSet => presence[u] # NoRec

\* C1: once the setUserOnline/setUserOffline calls for a user have completed and
\* no heartbeat is pending, the user is in the online set if and only if the most
\* recent call was setUserOnline and the presence record has not expired.  "Most
\* recent" is read in the way most favourable to the code: the call that started
\* last is also the call that completed last, and no call for the user threw.
C1_OnlineSetMatchesLastCall ==
  \A u \in Users :
    (/\ Settled(u)
     /\ lastStarted[u] \in {"online", "offline"}
     /\ lastCompleted[u] = lastStarted[u])
    => (u \in onlineSet <=> (lastStarted[u] = "online" /\ presence[u] # NoRec))

\* C2: every accepted connection that has disconnected, at whatever moment, had
\* setUserOffline called for its user by its disconnect listener.
C2_DisconnectCallsSetUserOffline ==
  \A s \in Sockets : sock[s].state = "closed" => offlineCalled[s]

(***************************************************************************)
(* Claims about chat delivery, the backplane and notifications             *)
(***************************************************************************)
\* The connections joined to a room, on whichever instance.
RoomEverywhere(room) ==
  {t \in Sockets : sock[t].state = "connected" /\ room \in sock[t].rooms}

\* (event, data) has been emitted to connection t by the latest emission, or a
\* message carrying it is on its way to the instance of t on the given channel.
Reaches(t, channel, event, data) ==
  \/ /\ lastEmit'.event = event
     /\ lastEmit'.data = data
     /\ t \in lastEmit'.targets
  \/ \E k \in DOMAIN busQ'[SockInst[t]] :
       LET m == busQ'[SockInst[t]][k]
       IN /\ m.channel = channel
          /\ JSONParses(m.payload)
          /\ Member(m.payload, "event") = event
          /\ Member(m.payload, "data") = data

SendSucceeds(s) ==
  /\ ccall[s].op = "send"
  /\ ccall[s].pc = "populate"
  /\ ccall'[s].pc = "idle"
  /\ lastAck' = [sock |-> s, event |-> "send_message", error |-> "", val |-> ccall[s].msg]

\* C3: when a send_message event succeeds on one instance, new_message with the
\* created message is emitted, or is on its way over the room channel, to every
\* connection joined to room chat:<chatId> on every instance.
C3_NewMessageReachesEveryInstance ==
  [][\A s \in Sockets :
       SendSucceeds(s) =>
         \A t \in RoomEverywhere(ChatRoom(ccall[s].chat)) :
           Reaches(t, RoomChannel, "new_message",
                   [id |-> ccall[s].msg, chat |-> ccall[s].chat])]_vars

Last(seq) == seq[Len(seq)]

\* C4: a message published on the room channel is received by every subscribed
\* instance, the publisher included, and each instance that handles it emits
\* (event, data) to exactly its local connections in that room; a room-channel
\* message without a room is emitted to nobody.
C4_RoomMessageReachesRoomOnEveryInstance ==
  [][\A i \in Instances :
       /\ (/\ Len(busQ'[i]) = Len(busQ[i]) + 1
           /\ Last(busQ'[i]).channel = RoomChannel)
          => \A j \in Instances :
               RoomChannel \in subscribed[j] => busQ'[j] = Append(busQ[j], Last(busQ'[i]))
       /\ (/\ busQ[i] # <<>>
           /\ busQ'[i] = Tail(busQ[i])
           /\ Head(busQ[i]).channel = RoomChannel)
          => LET m == Head(busQ[i]).payload
             IN IF JSONParses(m) /\ "room" \in DOMAIN m /\ m.room # ""
                THEN lastEmit' = [inst |-> i, event |-> m.event, data |-> m.data,
                                  targets |-> {t \in Sockets :
                                                 /\ SockInst[t] = i
                                                 /\ sock[t].state = "connected"
                                                 /\ m.room \in sock[t].rooms}]
                ELSE lastEmit' = lastEmit]_vars

\* Witness of C4: instance B emitted to its connection s3, and to no other, the
\* typing indicator that user u2, connected to instance A, published.
C4_Witness ==
  /\ lastEmit.event = "user_typing"
  /\ lastEmit.inst = "B"
  /\ lastEmit.data.userId = "u2"
  /\ lastEmit.targets = {"s3"}

NotificationPersisted(n) ==
  /\ ncall[n].inst \in Instances
  /\ ncall[n].pc = "populate"
  /\ ncall'[n].pc = "done"
  /\ ncall'[n].status = "created"

\* C5: when createNotification persisted a notification on one instance,
\* notification:new with that notification is emitted, or is on its way over the
\* user channel, to every connected connection of the recipient on every instance.
C5_NotificationReachesEveryInstance ==
  [][\A n \in NotifCallers :
       NotificationPersisted(n) =>
         \A t \in Sockets :
           (sock[t].state = "connected" /\ sock[t].user = ncall[n].data.recipientId)
           => Reaches(t, UserChannel, "notification:new",
                      [id |-> ncall[n].nid, recipient |-> ncall[n].data.recipientId])]_vars

\* C6: a createNotification call whose recipientId equals its actorId (both
\* well-formed) never reaches the save: it returns null, no stored notification
\* has its recipient as actor, and so none is emitted.
C6_NoSelfNotification ==
  /\ \A k \in DOMAIN notifications : notifications[k].recipient # notifications[k].actor
  /\ \A n \in NotifCallers :
       (/\ ncall[n].pc # "idle"
        /\ ncall[n].op = "create"
        /\ IsValidUserId(ncall[n].data.recipientId)
        /\ ncall[n].data.recipientId = ncall[n].data.actorId)
       => (ncall[n].pc = "done" /\ ncall[n].status = "null" /\ ncall[n].nid = NoId)
  /\ lastEmit.event = "notification:new" => lastEmit.data.recipient \in Users

\* Witness of C6: a call with recipientId = actorId returned null while another
\* notification is stored.
C6_Witness ==
  \E n \in NotifCallers :
    /\ ncall[n].pc = "done"
    /\ ncall[n].status = "null"
    /\ ncall[n].data.recipientId = ncall[n].data.actorId
    /\ ncall[n].data.recipientId \in Users
    /\ Len(notifications) = 1

(***************************************************************************)
(* Claims about the post service and its cache                             *)
(***************************************************************************)
\* A listPosts or searchPosts call returns its result.
ReadReturns(q) ==
  /\ preq[q].op \in {"list", "search"}
  /\ preq[q].pc \in {"cacheGet", "cacheSet"}
  /\ preq'[q].pc = "done"
  /\ preq'[q].error = ""

Fresh(q) ==
  NoViews(preq'[q].result) = NoViews(PaginatedPosts(posts, preq[q].params))

C8_LikeAndBookmarkIdempotent ==
  \A q \in PostCallers :
    (preq[q].pc = "done" /\ preq[q].error = "" /\ preq[q].post \in DOMAIN posts)
    => LET doc == posts[preq[q].post]
           u == preq[q].user
       IN /\ preq[q].op = "likePost" => Count(doc.likes, u) = 1
          /\ preq[q].op = "bookmarkPost" => Count(doc.bookmarks, u) = 1
          /\ preq[q].op = "unlikePost" => Count(doc.likes, u) = 0
          /\ preq[q].op = "unbookmarkPost" => Count(doc.bookmarks, u) = 0

\* Witness of C8: likePost returned for a user who had liked the post before.
C8_Witness ==
  \E q \in PostCallers :
    /\ preq[q].pc = "done"
    /\ preq[q].op = "likePost"
    /\ preq[q].already
    /\ Count(posts[preq[q].post].likes, preq[q].user) = 1

\* The unordered pair of a getOrCreateDirectChat call.
Pair(p) == {ccall[p].user} \cup ccall[p].other

DirectReturned(p) ==
  ccall[p].op = "direct" /\ ccall[p].pc = "done" /\ ccall[p].error = ""

\* C9: two getOrCreateDirectChat calls, one after the other, with the same pair
\* of distinct users in either argument order return the same chat, and no pair
\* has a second direct chat.
C9_DirectChatReturnedAgain ==
  /\ \A p \in HttpCallers, r \in HttpCallers :
       (DirectReturned(p) /\ DirectReturned(r) /\ Pair(p) = Pair(r))
       => ccall[p].chat = ccall[r].chat
  /\ \A c \in DOMAIN chats, d \in DOMAIN chats :
       (/\ chats[c].type = "direct"
        /\ chats[d].type = "direct"
        /\ Range(chats[c].participants) = Range(chats[d].participants))
       => c = d

\* Witness of C9: both calls returned, with the arguments in opposite order.
C9_Witness ==
  /\ DirectReturned("h1")
  /\ DirectReturned("h2")
  /\ Pair("h1") = Pair("h2")
  /\ ccall["h1"].user # ccall["h2"].user
  /\ ccall["h1"].chat = ccall["h2"].chat

\* C10: a call during which the cache was unreachable never fails with a cache
\* error, and when it succeeds it returns what the store holds: the list, the
\* post with its view counted, the created post, the stored comment, the like.
C10_CacheFailureDegradesGracefully ==
  \A q \in PostCallers :
    (preq[q].pc = "done" /\ preq[q].cacheDown)
    => /\ preq[q].error # "CacheError"
       /\ preq[q].error = "" =>
            CASE preq[q].op \in {"list", "search"} ->
                   preq[q].result = PaginatedPosts(posts, preq[q].params)
              [] preq[q].op = "getPost" ->
                   ~preq[q].hit /\ preq[q].result = posts[preq[q].post]
              [] preq[q].op = "createPost" ->
                   preq[q].result = posts[Len(posts)]
              [] preq[q].op = "addComment" ->
                   /\ preq[q].result.comment = Len(comments)
                   /\ comments[Len(comments)].post = preq[q].post
              [] preq[q].op = "likePost" ->
                   Count(posts[preq[q].post].likes, preq[q].user) = 1
              [] OTHER -> TRUE

\* Witness of C10: listPosts returned the stored post although Redis was
\* unreachable during the call.
C10_Witness ==
  \E q \in PostCallers :
    /\ preq[q].pc = "done"
    /\ preq[q].cacheDown
    /\ preq[q].op = "list"
    /\ preq[q].error = ""
    /\ preq[q].result.total = 1

(***************************************************************************)
(* Claims about error handling in presence, notifications and chat         *)
(***************************************************************************)
\* C11: no setUserOnline or setUserOffline call propagates a storage error to
\* its caller: no call for any user threw, and no 'user_online' or
\* 'user_offline' listener had an error to acknowledge.
C11_PresenceErrorsNotPropagated ==
  /\ \A u \in Users : lastCompleted[u] # "failed"
  /\ lastAck.event \in {"user_online", "user_offline"} => lastAck.error = ""

\* createNotification resumes after `await notification.populate` succeeded on
\* a process without a gateway: the push that follows fails.
PushFails(n) ==
  /\ ncall[n].pc = "populate"
  /\ mongoUp
  /\ ~IoInitialised(ncall[n].inst)
  /\ ncall'[n] # ncall[n]

\* C12: when the push fails inside createNotification, the call returns the
\* notification without raising and the notification stays persisted; and a
\* notification that was pushed had been saved before.
C12_PushFailureKeepsNotification ==
  /\ [][\A n \in NotifCallers :
          PushFails(n) =>
            /\ ncall'[n].pc = "done"
            /\ ncall'[n].status = "created"
            /\ ncall'[n].nid = ncall[n].nid
            /\ notifications' = notifications
            /\ ncall[n].nid \in DOMAIN notifications
            /\ notifications[ncall[n].nid].recipient = ncall[n].data.recipientId]_vars
  /\ [](lastEmit.event = "notification:new" =>
          /\ lastEmit.data.id \in DOMAIN notifications
          /\ notifications[lastEmit.data.id].recipient = lastEmit.data.recipient)

\* Witness of C12: createNotification returned the saved notification on the
\* process without a gateway, and nothing was emitted.
C12_Witness ==
  \E n \in NotifCallers :
    /\ ncall[n].pc = "done"
    /\ ncall[n].inst = "W"
    /\ ncall[n].status = "created"
    /\ ncall[n].nid \in DOMAIN notifications
    /\ lastEmit = NoEmit

\* C13: a connection whose handshake carried no token, or a token that fails
\* verification, is rejected before the connection handler runs: it is in no
\* room, has no user, no listener of it is registered and no presence call runs
\* for it; and the step that rejects it starts no setUserOnline for any user.
C13_RejectedBeforeHandlers ==
  /\ [](\A s \in Sockets :
          sock[s].token \in {"missing", "invalid"} =>
            /\ sock[s].state = "rejected"
            /\ sock[s].user = Undefined
            /\ sock[s].rooms = {}
            /\ sock[s].hpc = "none"
            /\ \A r \in Roles : ~Active(s, r))
  /\ [][\A s \in Sockets :
          (sock'[s] # sock[s] /\ sock'[s].token \in {"missing", "invalid"})
          => (pcall' = pcall /\ lastStarted' = lastStarted /\ onlineSet' = onlineSet)]_vars

\* Witness of C13: a handshake with a token that fails verification was
\* rejected while another connection of the instance is open.
C13_Witness ==
  \E s \in Sockets, t \in Sockets :
    /\ sock[s].state = "rejected"
    /\ sock[s].token = "invalid"
    /\ sock[t].state = "connected"

\* A sendMessage call of connection s ends without having returned a message.
SendFails(s) ==
  /\ ccall[s].op = "send"
  /\ ChatRunning(s)
  /\ ccall'[s].pc = "idle"
  /\ ~(ccall[s].pc = "populate" /\ mongoUp)

\* C14: when the chat send fails while send_message is handled (store
\* unavailable, chat not found, sender no participant), the sender is
\* acknowledged with an error and new_message is emitted to no connection.
C14_FailedSendIsNotBroadcast ==
  [][\A s \in Sockets :
       SendFails(s) =>
         /\ lastAck'.sock = s
         /\ lastAck'.event = "send_message"
         /\ lastAck'.error # ""
         /\ lastEmit' = lastEmit]_vars

\* Witness of C14: a sender who is no participant of the chat was acknowledged
\* with the error, and nothing has been emitted.
C14_Witness ==
  /\ lastAck.event = "send_message"
  /\ lastAck.error = "ValidationError"
  /\ lastEmit = NoEmit
  /\ messages = <<>>

\* sendMessage of connection s resumes after Chat.findById and finds that the
\* sender is not among the participants of the chat.
RejectsNonParticipant(s) ==
  /\ ccall[s].op = "send"
  /\ ccall[s].pc = "findById"
  /\ mongoUp
  /\ ccall[s].chat \in DOMAIN chats
  /\ ccall[s].user \notin Range(chats[ccall[s].chat].participants)
  /\ ccall'[s] # ccall[s]

\* C15: sendMessage by a user who is not in the participant list of the chat
\* raises an error and changes nothing: no Message is created and lastMessage
\* of the chat is unchanged; so every message was sent by a participant.
C15_NonParticipantCannotSend ==
  /\ [][\A s \in Sockets :
          RejectsNonParticipant(s) =>
            /\ ccall'[s].pc = "idle"
            /\ lastAck' = [sock |-> s, event |-> "send_message",
                           error |-> "ValidationError", val |-> NoId]
            /\ messages' = messages
            /\ chats' = chats]_vars
  /\ [](\A k \in DOMAIN messages :
          messages[k].sender \in Range(chats[messages[k].chat].participants))

\* Witness of C15: user u2 was refused in the chat of u1 and u3 after a message
\* had been sent in the chat of u1 and u2, which is still its lastMessage.
C15_Witness ==
  /\ lastAck = [sock |-> "s2", event |-> "send_message",
                error |-> "ValidationError", val |-> NoId]
  /\ Len(messages) = 1
  /\ chats[1].lastMessage = 1
  /\ chats[2].lastMessage = NoId

(***************************************************************************)
(* Two-tabs specification: the connections of one user come and go, and    *)
(* each presence call has returned before the next one starts.             *)
(***************************************************************************)
Sequential == ActiveCalls = {}

NextTabs ==
  \/ \E s \in PresenceSockets, u \in PresenceUsers, t \in Tokens :
       Sequential /\ Connect(s, u, t)
  \/ \E s \in PresenceSockets : Sequential /\ Disconnect(s)
  \/ \E s \in PresenceSockets :
       \E ev \in {"user_online", "user_offline", "presence:heartbeat"} :
         Sequential /\ ClientPresenceEvent(s, ev)
  \/ \E s \in PresenceSockets, r \in Roles : PresenceSetEx(s, r)
  \/ \E s \in PresenceSockets, r \in Roles : PresenceSetMember(s, r)
  \/ \E s \in PresenceSockets, r \in Roles :
       BusBelow(MaxPresenceQueue) /\ PresenceBroadcast(s, r)
  \/ \E s \in PresenceSockets, r \in Roles : RefreshGet(s, r)
  \/ \E s \in PresenceSockets, r \in Roles : RefreshSetEx(s, r)
  \/ \E u \in PresenceUsers : ExpirePresence(u)
  \/ \E i \in Instances : Deliver(i)
  \/ RedisFlip

SpecTabs == Init /\ [][NextTabs]_vars

\* Connection s is open, its handlers registered, for the user of connection t.
OpenFor(s, t) ==
  /\ sock[s].state = "connected"
  /\ sock[s].hpc = "ready"
  /\ sock[s].user = sock[t].user

\* C16: with two simultaneous connections of one user, the setUserOnline of the
\* second overwrites the connection id the first recorded; and once either has
\* disconnected and its setUserOffline returned, no later presence call made
\* and none having failed, the presence record does not say online and the
\* user is outside the online set although the other connection is open.
C16_SecondTabOverwritesAndEitherDisconnectMarksOffline ==
  /\ [][\A s \in Sockets, t \in Sockets :
          (/\ s # t
           /\ OpenFor(s, t)
           /\ presence[sock[s].user].socketId = s
           /\ pcall[t]["connect"].pc = "setEx"
           /\ redisUp
           /\ pcall'[t] # pcall[t])
          => presence'[sock[t].user] = [status |-> "online", socketId |-> t]]_vars
  /\ [](\A s \in Sockets, t \in Sockets :
          (/\ s # t
           /\ sock[s].state = "closed"
           /\ OpenFor(t, s)
           /\ Sequential
           /\ lastStarted[sock[s].user] = "offline"
           /\ lastCompleted[sock[s].user] = "offline")
          => /\ presence[sock[s].user].status # "online"
             /\ sock[s].user \notin onlineSet)

\* Witness of C16: the record named the second connection, one of the two then
\* disconnected, and the user is marked offline while the other is open.
C16_Witness ==
  \E s \in Sockets, t \in Sockets :
    /\ s # t
    /\ sock[s].state = "closed"
    /\ OpenFor(t, s)
    /\ Sequential
    /\ lastStarted[sock[s].user] = "offline"
    /\ lastCompleted[sock[s].user] = "offline"
    /\ presence[sock[s].user] = [status |-> "offline", socketId |-> Undefined]
    /\ sock[s].user \notin onlineSet

(***************************************************************************)
(* NotificationService.markAsRead and markAllAsRead                        *)
(***************************************************************************)
\* A faulty variant of OwnsNotification: the check is missing.
OwnsNotificationAlways(doc, userId) == TRUE

\* markAsRead: notification.recipient.toString() === userId
OwnsNotification(doc, userId) == doc.recipient = userId

markFrame == <<lastEmit, notifFrame, postVars>>

\* markAsRead(notificationId, userId), the code up to `await Notification.findById`.
MarkAsRead(n, notificationId, userId) ==
  /\ ~NotifRunning(n)
  /\ ncall' = [ncall EXCEPT ![n] =
       IF IsValidObjectId(notificationId)
       THEN [NotifIdle EXCEPT !.op = "markAsRead", !.user = userId,
                              !.nid = notificationId, !.pc = "markFind"]
       ELSE [NotifIdle EXCEPT !.op = "markAsRead", !.user = userId,
                              !.nid = notificationId, !.pc = "done",
                              !.status = "ValidationError"]]
  /\ UNCHANGED <<notifications, markFrame>>

\* await Notification.findById(notificationId), then the ownership check.
MarkFindById(n) ==
  /\ ncall[n].pc = "markFind"
  /\ ncall' = [ncall EXCEPT ![n] =
       IF ~mongoUp THEN NotifEnd(@, "StoreError")
       ELSE IF @.nid \notin DOMAIN notifications THEN NotifEnd(@, "NotFound")
       ELSE IF ~OwnsNotification(notifications[@.nid], @.user)
       THEN NotifEnd(@, "ValidationError")
       ELSE [@ EXCEPT !.pc = "markSave"]]
  /\ UNCHANGED <<notifications, markFrame>>

\* notification.isRead = true; await notification.save()
MarkSave(n) ==
  /\ ncall[n].pc = "markSave"
  /\ IF mongoUp
     THEN /\ notifications' = [notifications EXCEPT ![ncall[n].nid].isRead = TRUE]
          /\ ncall' = [ncall EXCEPT ![n].pc = "markPopulate"]
     ELSE /\ ncall' = [ncall EXCEPT ![n] = NotifEnd(@, "StoreError")]
          /\ UNCHANGED notifications
  /\ UNCHANGED markFrame

\* await notification.populate(...), then the call returns the notification.
MarkPopulate(n) ==
  /\ ncall[n].pc = "markPopulate"
  /\ ncall' = [ncall EXCEPT ![n] =
                 NotifEnd(@, IF mongoUp THEN "marked" ELSE "StoreError")]
  /\ UNCHANGED <<notifications, markFrame>>

\* markAllAsRead(userId), the code up to `await Notification.updateMany`.
MarkAllAsRead(n, userId) ==
  /\ ~NotifRunning(n)
  /\ ncall' = [ncall EXCEPT ![n] =
       IF IsValidUserId(userId)
       THEN [NotifIdle EXCEPT !.op = "markAllAsRead", !.user = userId,
                              !.pc = "updateMany"]
       ELSE [NotifIdle EXCEPT !.op = "markAllAsRead", !.user = userId,
                              !.pc = "done", !.status = "ValidationError"]]
  /\ UNCHANGED <<notifications, markFrame>>

\* Notification.updateMany({ recipient: userId, isRead: false },
\*                         { $set: { isRead: true } })
MarkUpdateMany(n) ==
  /\ ncall[n].pc = "updateMany"
  /\ IF mongoUp
     THEN /\ notifications' =
               [k \in DOMAIN notifications |->
                  IF notifications[k].recipient = ncall[n].user /\ ~notifications[k].isRead
                  THEN [notifications[k] EXCEPT !.isRead = TRUE]
                  ELSE notifications[k]]
          /\ ncall' = [ncall EXCEPT ![n] = NotifEnd(@, "marked")]
     ELSE /\ ncall' = [ncall EXCEPT ![n] = NotifEnd(@, "StoreError")]
          /\ UNCHANGED notifications
  /\ UNCHANGED markFrame

(***************************************************************************)
(* Read-state specification: users mark stored notifications as read.      *)
(***************************************************************************)
MarkIds == {1, 2, 3, BadId}
MarkUsers == Users \cup {"bad"}

InitRead ==
  /\ EnvInit /\ BusInit /\ Connected /\ traceEmits = TRUE
  /\ chats = <<>>
  /\ messages = <<>>
  /\ ccall = [p \in ChatCallers |-> ChatIdle]
  /\ notifications = <<[recipient |-> "u1", actor |-> "u2", type |-> "like", isRead |-> FALSE],
                       [recipient |-> "u2", actor |-> "u1", type |-> "comment", isRead |-> FALSE]>>
  /\ ncall = [n \in NotifCallers |-> NotifIdle]
  /\ posts = <<>>
  /\ comments = <<>>
  /\ cache = [k \in CacheKeySpace |-> Null]
  /\ preq = [q \in PostCallers |-> PostIdle]
  /\ readPhase = [p \in ReadParams |-> "none"]
  /\ postCalls = 0
  /\ AuthInit
  /\ pager = PagerIdle
  /\ OpsInit /\ lastHandled = NoHandled

NextRead ==
  \/ \E n \in NotifCallers, id \in MarkIds, u \in MarkUsers : MarkAsRead(n, id, u)
  \/ \E n \in NotifCallers : MarkFindById(n)
  \/ \E n \in NotifCallers : MarkSave(n)
  \/ \E n \in NotifCallers : MarkPopulate(n)
  \/ \E n \in NotifCallers, u \in MarkUsers : MarkAllAsRead(n, u)
  \/ \E n \in NotifCallers : MarkUpdateMany(n)
  \/ MongoFlip

SpecRead == InitRead /\ [][NextRead]_vars

\* The call of caller n that takes a step is a read-state mutation made in the
\* name of the recipient of notification k.
MarksFor(n, k) ==
  /\ ncall'[n] # ncall[n]
  /\ ncall[n].user = notifications[k].recipient
  /\ \/ ncall[n].op = "markAsRead" /\ ncall[n].nid = k
     \/ ncall[n].op = "markAllAsRead"

\* markAsRead of caller n resumes after findById with a notification whose
\* recipient is another user.
RefusesOtherUser(n) ==
  /\ ncall[n].pc = "markFind"
  /\ mongoUp
  /\ ncall[n].nid \in DOMAIN notifications
  /\ notifications[ncall[n].nid].recipient # ncall[n].user
  /\ ncall'[n] # ncall[n]

\* C17: isRead of a notification changes only to true and only through
\* markAsRead of that notification, or markAllAsRead, called with its
\* recipient as userId; markAsRead by any other user raises an error and
\* leaves the notifications unchanged; and neither operation emits an event.
C17_OnlyRecipientMarksRead ==
  /\ [][/\ \A k \in DOMAIN notifications :
             notifications'[k].isRead # notifications[k].isRead =>
               /\ notifications'[k].isRead
               /\ \E n \in NotifCallers : MarksFor(n, k)
        /\ \A n \in NotifCallers :
             RefusesOtherUser(n) =>
               /\ ncall'[n].pc = "done"
               /\ ncall'[n].status = "ValidationError"
               /\ notifications' = notifications
        /\ lastEmit' = lastEmit /\ busQ' = busQ]_vars
  /\ [](lastEmit = NoEmit)

\* Witness of C17: user u2 was refused on the notification of u1, which is
\* unread, after u2 had marked its own notification as read.
C17_Witness ==
  \E n \in NotifCallers :
    /\ ncall[n].pc = "done"
    /\ ncall[n].op = "markAsRead"
    /\ ncall[n].user = "u2"
    /\ ncall[n].nid = 1
    /\ ncall[n].status = "ValidationError"
    /\ ~notifications[1].isRead
    /\ notifications[2].isRead

(***************************************************************************)
(* Post specification with store failures: as SpecPosts, and the MongoDB   *)
(* connection comes and goes.                                              *)
(***************************************************************************)
NextPostsStore == NextPosts \/ MongoFlip

SpecPostsStore == InitPosts /\ [][NextPostsStore]_vars

\* likePost or addComment of caller q resumes after its last store operation
\* succeeded: what is left is the cache invalidation and the notifications.
StoreWriteDone(q) ==
  /\ preq[q].op \in {"likePost", "addComment"}
  /\ preq[q].pc = "invalidate"
  /\ preq'[q] # preq[q]

\* C18: a likePost or addComment whose store operations succeeded returns
\* success to its caller whether or not the cache invalidation that follows
\* fails, and the notification chains it started, which run on after it
\* returned, change neither its outcome nor what it stored when they fail.
C18_WriteSucceedsDespiteCacheAndNotifications ==
  /\ [][\A q \in PostCallers :
          StoreWriteDone(q) =>
            /\ preq'[q].pc = "done"
            /\ preq'[q].error = ""
            /\ posts' = posts
            /\ comments' = comments]_vars
  /\ [][\A n \in NotifCallers :
          (ncall[n].detached /\ ncall'[n] # ncall[n]) =>
            /\ preq' = preq
            /\ posts' = posts
            /\ comments' = comments]_vars

\* Witness of C18: likePost returned success although Redis was unreachable
\* when it invalidated, and the like notification for the author of the post,
\* another user, was not persisted: its creation failed with the store down.
C18_Witness ==
  \E q \in PostCallers :
    /\ preq[q].pc = "done"
    /\ preq[q].op = "likePost"
    /\ preq[q].error = ""
    /\ preq[q].cacheDown
    /\ ~preq[q].already
    /\ posts[preq[q].post].author # preq[q].user
    /\ preq[q].user \in Range(posts[preq[q].post].likes)
    /\ \A n \in NotifCallers : ncall[n] = NotifIdle
    /\ notifications = <<>>

(***************************************************************************)
(* Authentication specification: clients register, log in, refresh and log *)
(* out, one call after the other, while the seconds pass.                  *)
(***************************************************************************)
NoAuthCall == \A a \in AuthCallers : ~AuthRunning(a)

\* The refresh tokens a client can hold: those stored, those replaced, and a
\* string that is no token.
KnownTokens ==
  UNION {Range(accounts[k].refreshTokens) : k \in DOMAIN accounts}
    \cup rotated \cup {Garbage}

TokensBelow(n) == \A k \in DOMAIN accounts : Len(accounts[k].refreshTokens) < n

NextAuth ==
  \/ \E a \in AuthCallers, e \in Emails :
       NoAuthCall /\ Len(accounts) < MaxAccounts /\ Register(a, e, "pw")
  \/ \E a \in AuthCallers : RegisterFindOne(a)
  \/ \E a \in AuthCallers : RegisterCreate(a)
  \/ \E a \in AuthCallers, e \in Emails, p \in Passwords :
       NoAuthCall /\ TokensBelow(MaxTokens) /\ Login(a, e, p)
  \/ \E a \in AuthCallers : LoginFindOne(a)
  \/ \E a \in AuthCallers : LoginCompare(a)
  \/ \E a \in AuthCallers, t \in KnownTokens : NoAuthCall /\ RefreshToken(a, t)
  \/ \E a \in AuthCallers : RefreshFindById(a)
  \/ \E a \in AuthCallers, t \in KnownTokens, k \in 1..MaxAccounts :
       NoAuthCall /\ Logout(a, k, t)
  \/ \E a \in AuthCallers : LogoutFindById(a)
  \/ \E a \in AuthCallers : AuthSave(a)
  \/ Tick
  \/ MongoFlip

SpecAuth == Init /\ [][NextAuth]_vars

\* The refreshToken call of caller a returns its tokens.
RefreshSucceeds(a) ==
  /\ acall[a].op = "refreshToken"
  /\ acall[a].pc = "save"
  /\ acall'[a].pc = "done"
  /\ acall'[a].error = NoError

\* C19: a refreshToken(t) that succeeds returns a refresh token different from
\* t, which is stored and so accepted later, and t is no token an earlier
\* refreshToken call has replaced: after its replacement t is rejected.
C19_RefreshTokenIsSingleUse ==
  [][\A a \in AuthCallers :
       RefreshSucceeds(a) =>
         /\ acall'[a].result # acall[a].token
         /\ acall[a].token \notin rotated
         /\ acall'[a].result \in Range(accounts'[acall[a].user].refreshTokens)
         /\ acall[a].token \notin Range(accounts'[acall[a].user].refreshTokens)]_vars

\* The login call of caller a was rejected as unauthenticated.
LoginRejected(a) ==
  /\ acall[a].op = "login"
  /\ acall[a].pc = "done"
  /\ acall[a].error.name = "AuthenticationError"

\* C20: a login rejected for a wrong password and a login rejected for an
\* email that is not registered carry the same message, 'Invalid email or
\* password', so the rejection does not tell whether the email is registered.
C20_LoginRejectionsAlike ==
  /\ \A a \in AuthCallers :
       LoginRejected(a) => acall[a].error.message = "Invalid email or password"
  /\ \A a \in AuthCallers, b \in AuthCallers :
       (LoginRejected(a) /\ LoginRejected(b))
       => acall[a].error.message = acall[b].error.message

(***************************************************************************)
(* Paging specification: one client pages through lists while another      *)
(* creates posts, cached entries expire and the cache comes and goes.       *)
(***************************************************************************)
NextPages ==
  \/ \E st \in PageFilters, lim \in PageSizes :
       ~PostRunning("q1") /\ PagerStart(st, lim)
  \/ PagerFetch("q1", "A")
  \/ PostCacheGet("q1")
  \/ PostQuery("q1")
  \/ PostCacheSet("q1")
  \/ PagerCollect("q1")
  \/ \E st \in {"published", "draft"} :
       ~PostRunning("q2") /\ Len(posts) < MaxListed /\ StartCreatePost("q2", "B", "u1", st)
  \/ PostSave("q2")
  \/ PostInvalidate("q2")
  \/ PostRespond("q2")
  \/ \E k \in CacheKeySpace : CacheExpire(k)
  \/ RedisFlip

SpecPages == InitPosts /\ [][NextPages]_vars

\* The client fetched every page and the stored posts are those it started with.
PagedUnchanged == pager.state = "done" /\ pager.store = posts

\* The ids collected hold no duplicate and are as many as the posts that
\* match the filter.
PagesPartitionMatching ==
  /\ \A m, n \in DOMAIN pager.ids : pager.ids[m] = pager.ids[n] => m = n
  /\ Len(pager.ids) =
       Cardinality({k \in DOMAIN posts : MatchesQuery(posts[k], pager.params)})

Assignees == Users \cup {"bad"}

NextIssues ==
  \/ \E u \in Users : Len(issues) < MaxIssues /\ CreateIssue("i1", "A", u)
  \/ \E id \in {1, BadId}, u \in Assignees :
       ~NotifRunning("n1") /\ AssignIssue("i1", "A", id, u)
  \/ AssignFindById("i1")
  \/ AssignSave("i1", "n1")
  \/ AssignPopulate("i1")
  \/ \E d \in NotifInputs :
       Len(notifications) + NotifDemand < MaxNotifications
         /\ CreateNotification("n2", "A", d)
  \/ \E n \in NotifCallers : NotifSave(n)
  \/ \E n \in NotifCallers : NotifPopulate(n)
  \/ MongoFlip

SpecIssues == InitNotify /\ [][NextIssues]_vars

\* The assignIssue call of caller c added its user to the assignees and
\* returned, and the notification chain it started has ended.
AssignedAndSettled(c, n) ==
  /\ icall[c].op = "assignIssue"
  /\ icall[c].pc = "done"
  /\ icall[c].added
  /\ ~NotifRunning(n)

\* C22: once an assignIssue call that added a new assignee has returned and
\* its notification chain has ended, a persisted 'issue_assigned' notification
\* has that assignee as its recipient.
C22_AssignmentNotifiesAssignee ==
  AssignedAndSettled("i1", "n1") =>
    \E k \in DOMAIN notifications :
      /\ notifications[k].type = "issue_assigned"
      /\ notifications[k].recipient = icall["i1"].user

(***************************************************************************)
(* Admin specification: the calls of the post specification and an admin   *)
(* who hides posts and deletes comments.                                    *)
(***************************************************************************)
NextAdmin ==
  \/ NextPosts
  \/ \E t \in {"post", "comment", "user"}, id \in PostIds \cup {BadId} :
       Quiet /\ HideContent("q1", "A", t, id)
  \/ HideFindPost("q1")
  \/ HideSavePost("q1")
  \/ HideFindComment("q1")
  \/ HideDeleteComment("q1")
  \/ HideDecCount("q1")
  \/ HideAudit("q1")

SpecAdmin == InitPosts /\ [][NextAdmin]_vars

\* The call of caller q returns success after it changed stored post data,
\* the cache having been reachable whenever the call used it.
ReturnsAfterWrite(q) ==
  /\ preq[q].pc # "done"
  /\ preq'[q].pc = "done"
  /\ preq'[q].error = ""
  /\ preq'[q].changed
  /\ ~preq'[q].cacheDown

\* The cache holds neither the key of the post nor a post-list or search key.
PostCachesInvalidated(c, postId) ==
  /\ postId # NoId => c[CacheKeysPost(postId)] = Null
  /\ \A k \in CachedKeys(c) :
       ~MatchesPattern(k, PostListPattern) /\ ~MatchesPattern(k, SearchPattern)

\* C23: when an operation that changed stored post data returns success (the
\* admin hideContent included), the post's cache key is deleted and no
\* post-list or search key is left in the cache.
C23_WritesInvalidateBeforeReturning ==
  [][\A q \in PostCallers :
       ReturnsAfterWrite(q) => PostCachesInvalidated(cache', preq'[q].post)]_vars

\* The refreshUserPresence call of connection s writes the record back.
HeartbeatWrites(s, r) ==
  /\ pcall[s][r].kind = "heartbeat"
  /\ pcall[s][r].pc = "refresh"
  /\ pcall'[s][r].pc = "idle"

\* C24: the write of a heartbeat leaves the status and the connection id of
\* the user's presence record as they are, creates no record for a user that
\* has none, and leaves the online set alone, whatever setUserOnline,
\* setUserOffline and heartbeat calls run beside it.
C24_HeartbeatKeepsStatus ==
  [][\A s \in Sockets, r \in Roles :
       HeartbeatWrites(s, r) =>
         /\ presence'[sock[s].user].status = presence[sock[s].user].status
         /\ presence'[sock[s].user].socketId = presence[sock[s].user].socketId
         /\ onlineSet' = onlineSet]_vars

(***************************************************************************)
(* Cleanup specification: connections come and go one presence call after  *)
(* the other, records expire, and cleanupStalePresence runs while no        *)
(* presence call does.                                                      *)
(***************************************************************************)
NextSweep ==
  \/ \E s \in PresenceSockets, u \in PresenceUsers :
       Sequential /\ ~SweepRunning /\ Connect(s, u, "valid")
  \/ \E s \in PresenceSockets : Sequential /\ ~SweepRunning /\ Disconnect(s)
  \/ \E s \in PresenceSockets, r \in Roles : PresenceSetEx(s, r)
  \/ \E s \in PresenceSockets, r \in Roles : PresenceSetMember(s, r)
  \/ \E s \in PresenceSockets, r \in Roles :
       BusBelow(MaxPresenceQueue) /\ PresenceBroadcast(s, r)
  \/ \E u \in PresenceUsers : ExpirePresence(u)
  \/ \E i \in Instances : Deliver(i)
  \/ Sequential /\ CleanupStalePresence
  \/ SweepMembers
  \/ \E u \in PresenceUsers : SweepExists(u)
  \/ SweepRem
  \/ RedisFlip

SpecSweep == Init /\ [][NextSweep]_vars

\* cleanupStalePresence completes without having caught an error, the records
\* being those it found when it started.
SweepCompletes ==
  /\ SweepRunning
  /\ sweep'.pc = "done"
  /\ sweep'.ok
  /\ presence' = sweep'.seen

ServerStep ==
  \/ \E s \in PresenceSockets, r \in Roles : PresenceSetEx(s, r)
  \/ \E s \in PresenceSockets, r \in Roles : PresenceSetMember(s, r)
  \/ \E s \in PresenceSockets, r \in Roles :
       BusBelow(MaxPresenceQueue) /\ PresenceBroadcast(s, r)
  \/ \E s \in PresenceSockets, r \in Roles : RefreshGet(s, r)
  \/ \E s \in PresenceSockets, r \in Roles : RefreshSetEx(s, r)
  \/ \E i \in Instances : Deliver(i)

SpecServerLive == Init /\ [][NextTabs]_vars /\ WF_vars(ServerStep)

\* The presence record of u expired while u is in the online set.
ExpiredMember(u) == u \in onlineSet /\ presence[u] = NoRec

\* C26: a user whose presence record expired while it is in the online set
\* is eventually removed from the online set by the running server.
C26_ExpiredMemberEventuallyRemoved ==
  \A u \in PresenceUsers : ExpiredMember(u) ~> (u \notin onlineSet)

(***************************************************************************)
(* Shutdown specification: the processes are signalled or crash, and shut  *)
(* down while Redis comes and goes.                                         *)
(***************************************************************************)
Signals == {"SIGTERM", "SIGINT"}

NextShutdown ==
  \/ \E i \in Instances, sig \in Signals : Signal(i, sig)
  \/ \E i \in Instances : Crash(i)
  \/ \E i \in Instances : ServerClosed(i)
  \/ \E i \in Instances : ShutdownUnsubscribe(i)
  \/ \E i \in Instances : ShutdownDatabase(i)
  \/ \E i \in Instances : ShutdownQuit(i)
  \/ \E i \in Instances : ForceExit(i)
  \/ RedisFlip
  \/ BusFlip

SpecShutdown == InitBus /\ [][NextShutdown]_vars

\* C27: a process that exited after SIGTERM or SIGINT had unsubscribed from
\* the three channels and quit its three Redis connections.
C27_SignalShutsDownCleanly ==
  \A i \in Instances :
    (server[i].state = "exited" /\ server[i].cause \in Signals)
      => subscribed[i] = {} /\ server[i].open = {}

(***************************************************************************)
(* Publishing specification: modules call publishMessage with messages     *)
(* that serialise and one that does not, while subscribers come and go;    *)
(* the subscriber callbacks are recorded.                                  *)
(***************************************************************************)
PublishInputs ==
  {PubSubMessage("announce", [text |-> "x"], ChatRoom(1), Undefined),
   PubSubMessage("announce", Circular, ChatRoom(1), Undefined)}

InitPublish ==
  /\ EnvInit /\ BusInit /\ StoreStart /\ Connected /\ traceEmits = TRUE
  /\ lastHandled = HandledNone

NextPublish ==
  \/ \E ch \in Channels, m \in PublishInputs :
       BusBelow(MaxQueue) /\ PublishMessage(ch, m)
  \/ \E ch \in Channels, str \in {Malformed, JSONNull} :
       BusBelow(MaxQueue) /\ PublishForeign(ch, str)
  \/ \E i \in Instances : Deliver(i)
  \/ \E i \in Instances : cleanupPubSub(i)
  \/ \E i \in Instances : initializePubSub(i)
  \/ BusFlip

SpecPublish == InitPublish /\ [][NextPublish]_vars

\* A publishMessage call was made in this step.
PublishCalled == lastPublish'.n # lastPublish.n

\* C28: a publishMessage call whose serialising or publishing fails raises and
\* hands the message to no instance, so that none emits it; a call that returns
\* normally handed the serialised message to every subscribed instance.
C28_PublishFailureIsRaised ==
  [][PublishCalled =>
       LET ch == lastPublish'.channel
           m == lastPublish'.message
       IN /\ (~Serialises(m) \/ ~busUp) =>
               /\ lastPublish'.outcome = "raised"
               /\ busQ' = busQ
               /\ lastEmit' = lastEmit
          /\ lastPublish'.outcome = "ok" =>
               \A i \in Instances :
                 busQ'[i] = IF ch \in subscribed[i]
                            THEN Append(busQ[i], [channel |-> ch,
                                                  payload |-> JSONStringify(m)])
                            ELSE busQ[i]]_vars

\* A publishMessage call of a message that serialises raised because the bus
\* was down, and no instance has anything to handle.
C28_Witness ==
  /\ lastPublish.outcome = "raised"
  /\ ~busUp
  /\ Serialises(lastPublish.message)
  /\ \A i \in Instances : busQ[i] = <<>>

\* The payload deserialises to a message object.
Deserialises(str) == JSONParses(str) /\ str # JSONNull

\* A subscriber callback ran in this step.
CallbackRan == lastHandled'.n # lastHandled.n

\* C29: the callback of a subscription takes each received message once, in
\* the order received, and invokes the handler exactly once for a payload that
\* deserialises to a message object; any other payload is dropped without
\* invoking the handler and without an emit, and the subscription and the
\* messages behind it stay.
C29_EachMessageHandledOnce ==
  [][CallbackRan =>
       \E i \in Instances :
         /\ busQ[i] # <<>>
         /\ LET m == Head(busQ[i])
            IN /\ lastHandled'.inst = i
               /\ lastHandled'.channel = m.channel
               /\ lastHandled'.payload = m.payload
               /\ lastHandled'.invoked = IF Deserialises(m.payload) THEN 1 ELSE 0
               /\ ~Deserialises(m.payload) => lastEmit' = lastEmit
         /\ busQ' = [busQ EXCEPT ![i] = Tail(busQ[i])]
         /\ subscribed' = subscribed]_vars

\* A payload that does not parse was dropped without a handler invocation on
\* an instance that is still subscribed and has a later message pending.
C29_Witness ==
  /\ lastHandled.trace
  /\ lastHandled.inst \in Instances
  /\ ~JSONParses(lastHandled.payload)
  /\ lastHandled.invoked = 0
  /\ lastHandled.channel \in subscribed[lastHandled.inst]
  /\ busQ[lastHandled.inst] # <<>>
  /\ Deserialises(Head(busQ[lastHandled.inst]).payload)

TypingEvents == {"user_typing", "user_stop_typing"}

\* The connection a typing indicator of user u came from: in the backplane
\* specification each user types on one connection.
TypingSender(u) == CHOOSE s \in BusSockets : SockUser[s] = u

\* C30: a typing indicator published for a chat is emitted to the other
\* connections in the chat's room and never to the connection that sent it.
C30_TypingNotEchoedToSender ==
  lastEmit.event \in TypingEvents
    => TypingSender(lastEmit.data.userId) \notin lastEmit.targets

(***************************************************************************)
(* Issue status specification: an issue is created and two callers update  *)
(* its status, their calls overlapping, while MongoDB comes and goes.      *)
(***************************************************************************)
NextStatus ==
  \/ \E u \in Users : Len(issues) < MaxIssues /\ CreateIssue("i1", "A", u)
  \/ \E c \in IssueCallers, id \in {1, BadId}, st \in IssueStatuses :
       UpdateIssueStatus(c, "A", id, st)
  \/ \E c \in IssueCallers : UpdateFindById(c)
  \/ \E c \in IssueCallers : UpdateSave(c)
  \/ MongoFlip

SpecStatus == InitNotify /\ [][NextStatus]_vars

AllowedTransitions ==
  {<<"open", "in-progress">>, <<"open", "closed">>, <<"in-progress", "open">>,
   <<"in-progress", "closed">>, <<"closed", "open">>}

\* C31: every issue starts open, the stored status of an issue changes only
\* along open -> in-progress, open -> closed, in-progress -> open,
\* in-progress -> closed and closed -> open, and an updateIssueStatus call that
\* raises leaves the issue as it was.
C31_StatusFollowsTransitions ==
  [][/\ Len(issues') > Len(issues) => issues'[Len(issues')].status = "open"
     /\ \A k \in DOMAIN issues :
          issues'[k].status # issues[k].status
            => <<issues[k].status, issues'[k].status>> \in AllowedTransitions
     /\ \A c \in IssueCallers :
          (icall'[c].op = "updateIssueStatus" /\ icall'[c].error # ""
             /\ icall'[c] # icall[c])
            => issues' = issues]_vars

\* C32: the closedAt of an issue is set if and only if its status is closed.
C32_ClosedAtIffClosed ==
  \A k \in DOMAIN issues :
    (issues[k].closedAt # Undefined) <=> (issues[k].status = "closed")

\* The most recently created message of chat c, NoId when it has none.
LatestMessage(c) ==
  LET own == {k \in DOMAIN messages : messages[k].chat = c}
  IN IF own = {} THEN NoId ELSE CHOOSE k \in own : \A j \in own : j <= k

SendRunning(c) == \E s \in Sockets : ChatRunning(s) /\ ccall[s].op = "send" /\ ccall[s].chat = c

\* C33: once every sendMessage call for a chat has completed, the chat's
\* lastMessage references the most recently created message of the chat.
C33_LastMessageIsLatest ==
  \A c \in DOMAIN chats :
    (~SendRunning(c) /\ LatestMessage(c) # NoId) => chats[c].lastMessage = LatestMessage(c)

(***************************************************************************)
(* View specification: a post is created and two clients fetch it, their   *)
(* getPost calls overlapping, while cached entries expire and Redis and    *)
(* MongoDB come and go.                                                    *)
(***************************************************************************)
MaxGets == 3

NextViews ==
  \/ \E u \in PostAuthors :
       /\ postCalls = 0 /\ Len(posts) < MaxPosts
       /\ StartCreatePost("q1", "A", u, "published")
  \/ PostSave("q1")
  \/ PostInvalidate("q1")
  \/ \E q \in PostCallers, i \in Instances, id \in PostIds :
       Views < MaxGets /\ postCalls < MaxPostCalls /\ StartGetPost(q, i, id)
  \/ \E q \in PostCallers : PostCacheGet(q)
  \/ \E q \in PostCallers : IncViewCount(q)
  \/ \E q \in PostCallers : PostPopulateAuthor(q)
  \/ \E q \in PostCallers : PostCacheSet(q)
  \/ \E q \in PostCallers : PostRespond(q)
  \/ CacheExpire(CacheKeysPost(1))
  \/ RedisFlip
  \/ MongoFlip

SpecViews == InitPosts /\ [][NextViews]_vars

\* The getPost call of caller q ends in this step.
GetPostEnds(q) ==
  preq[q].op = "getPost" /\ preq[q].pc # "done" /\ preq'[q].pc = "done"

\* C34: a getPost call that returns a post added exactly one view to it, from
\* the cache or from the store, and a call that raises added none, so that the
\* stored viewCount is the number of calls that returned the post.
C34_ViewCountCountsReturns ==
  [][\A q \in PostCallers :
       GetPostEnds(q) => preq'[q].views = IF preq'[q].error = "" THEN 1 ELSE 0]_vars

\* C34 as the code has it: a getPost call that returns a post added exactly
\* one view to it, from the cache or from the store, and the stored viewCount
\* changes only by the one view a getPost call adds.
C34_ReturnedPostWasCountedOnce ==
  [][/\ \A q \in PostCallers :
          (GetPostEnds(q) /\ preq'[q].error = "") => preq'[q].views = 1
     /\ \A k \in DOMAIN posts :
          posts'[k].viewCount # posts[k].viewCount
            => /\ posts'[k].viewCount = posts[k].viewCount + 1
               /\ \E q \in PostCallers :
                    /\ preq[q].op = "getPost" /\ preq[q].post = k
                    /\ preq'[q].views = preq[q].views + 1]_vars

\* A getPost call served from the cache returned after it added the second
\* view of the post.
C34_Witness ==
  \E q \in PostCallers :
    /\ preq[q].op = "getPost" /\ preq[q].pc = "done" /\ preq[q].error = ""
    /\ preq[q].hit
    /\ preq[q].views = 1
    /\ posts[preq[q].post].viewCount = 2

(***************************************************************************)
(* Direct-chat specification: HTTP callers on either instance look up or   *)
(* create direct chats, their calls overlapping.                            *)
(***************************************************************************)
DirectsInFlight == Cardinality({h \in HttpCallers : ChatRunning(h)})

NextDirect ==
  \/ \E p \in HttpCallers, a \in ChatUsers, b \in ChatUsers :
       /\ Len(chats) + DirectsInFlight < MaxChats
       /\ StartDirectChat(p, a, b)
  \/ \E p \in HttpCallers : DirectFindOne(p)
  \/ \E p \in HttpCallers : ChatCreate(p)
  \/ \E p \in HttpCallers : ChatPopulate(p)
  \/ MongoFlip

SpecDirect == InitChats /\ [][NextDirect]_vars

\* C35: in every reachable state at most one chat of type direct exists for
\* each unordered pair of users.
C35_OneDirectChatPerPair ==
  \A c \in DOMAIN chats, d \in DOMAIN chats :
    (/\ c # d
     /\ chats[c].type = "direct"
     /\ chats[d].type = "direct")
    => Range(chats[c].participants) # Range(chats[d].participants)

(***************************************************************************)
(* Like specification: a post is created and two callers like, unlike,     *)
(* bookmark and unbookmark it for either user, their calls overlapping.    *)
(***************************************************************************)
LikeOps == {"likePost", "unlikePost", "bookmarkPost", "unbookmarkPost"}

LikesInFlight ==
  Cardinality({q \in PostCallers : PostRunning(q) /\ preq[q].op = "likePost"})

NextLikes ==
  \/ \E u \in PostAuthors :
       /\ postCalls = 0 /\ Len(posts) < MaxPosts
       /\ StartCreatePost("q1", "A", u, "published")
  \/ \E q \in PostCallers, i \in Instances, op \in LikeOps, u \in PostUsers :
       /\ 0 < postCalls /\ postCalls < MaxPostCalls
       /\ \A r \in PostCallers : preq[r].op # "createPost"
       /\ op = "likePost" =>
            Len(notifications) + LikesInFlight + NotifDemand < MaxNotifications
       /\ StartPostOp(q, i, op, 1, u, {})
  \/ \E q \in PostCallers : PostFindById(q)
  \/ \E q \in PostCallers : PostSave(q)
  \/ \E q \in PostCallers :
       /\ preq[q].op = "likePost" => ~NotifRunning("n1")
       /\ PostInvalidate(q)
  \/ \E q \in PostCallers : PostRespond(q)
  \/ NotifSave("n1")
  \/ NotifPopulate("n1")

SpecLikes == InitPosts /\ [][NextLikes]_vars

\* The call of caller q ends in this step and no other call for its user runs.
LastCallEnds(q) ==
  /\ preq[q].op \in LikeOps
  /\ preq[q].pc # "done"
  /\ preq'[q].pc = "done"
  /\ \A r \in PostCallers \ {q} : PostRunning(r) => preq[r].user # preq[q].user

PostQuiet == \A q \in PostCallers : preq[q].pc \in {"idle", "done"}

\* C36: when the last call of a user on a post completes, the user is in the
\* post's likes (bookmarks) if that call was likePost (bookmarkPost) and is not
\* if it was unlikePost (unbookmarkPost), whatever other users' calls did
\* meanwhile; and once all calls have completed nobody is in likes or in
\* bookmarks more than once.
C36_LikesOfUsersDoNotInterfere ==
  [][/\ \A q \in PostCallers :
          LastCallEnds(q) =>
            LET u == preq[q].user
                doc == posts'[preq[q].post]
            IN CASE preq[q].op = "likePost" -> AlreadyIn(doc.likes, u)
                 [] preq[q].op = "unlikePost" -> ~AlreadyIn(doc.likes, u)
                 [] preq[q].op = "bookmarkPost" -> AlreadyIn(doc.bookmarks, u)
                 [] preq[q].op = "unbookmarkPost" -> ~AlreadyIn(doc.bookmarks, u)
     /\ PostQuiet' =>
          \A k \in DOMAIN posts', u \in PostUsers :
            Count(posts'[k].likes, u) <= 1 /\ Count(posts'[k].bookmarks, u) <= 1]_vars

(***************************************************************************)
(* Room specification: the connections of u2 and of u1 on instance B join  *)
(* and leave the rooms of the two direct chats, of which u2 is in the      *)
(* first only, and the connection of u1 on instance A sends.               *)
(***************************************************************************)
RoomChats == {1, 2}

NextRooms ==
  \/ \E s \in BusSockets, c \in RoomChats : JoinChat(s, c)
  \/ \E s \in BusSockets, c \in RoomChats : LeaveChat(s, c)
  \/ \E c \in RoomChats :
       Len(messages) + SendsInFlight < MaxMessages /\ SendMessageEvent("s1", c, "hi")
  \/ \E s \in Sockets : SendFindById(s)
  \/ \E s \in Sockets : SendCreate(s)
  \/ \E s \in Sockets : SendSave(s)
  \/ \E s \in Sockets : SendPopulate(s)

SpecRooms == InitSend /\ [][NextRooms]_vars

\* C37: only connections of participants are in the room of a chat, and a
\* 'new_message' of a chat is emitted only to connections of its participants.
C37_OnlyParticipantsReceiveMessages ==
  /\ \A s \in Sockets, c \in DOMAIN chats :
       ChatRoom(c) \in sock[s].rooms => IsParticipant(chats[c], sock[s].user)
  /\ lastEmit.event = "new_message" =>
       \A t \in lastEmit.targets :
         IsParticipant(chats[lastEmit.data.chat], sock[t].user)

(***************************************************************************)
(* Key specification: posts are created while nothing is cached, then      *)
(* listPosts and searchPosts calls that differ in status, page and limit   *)
(* are served one after the other, from the store or from the cache.       *)
(***************************************************************************)
MaxKeyed == 2

NextKeys ==
  \/ \E st \in {"published", "draft"} :
       /\ Len(posts) < MaxKeyed
       /\ CachedKeys(cache) = {}
       /\ StartCreatePost("q1", "A", "u1", st)
  \/ \E p \in KeyParams :
       postCalls < MaxPostCalls /\ StartRead("q1", "A", p)
  \/ PostSave("q1")
  \/ PostInvalidate("q1")
  \/ PostCacheGet("q1")
  \/ PostQuery("q1")
  \/ PostCacheSet("q1")
  \/ PostRespond("q1")

SpecKeys == InitPosts /\ [][NextKeys]_vars

\* C38: with the stored posts unchanged, a listPosts or searchPosts call served
\* from the cache returns what the store query returns for its parameters.
C38_CachedReadEqualsStoreQuery ==
  \A q \in PostCallers :
    (/\ preq[q].op \in {"list", "search"}
     /\ preq[q].pc = "done"
     /\ preq[q].error = ""
     /\ preq[q].hit)
    => preq[q].result = PaginatedPosts(posts, preq[q].params)


(***************************************************************************)
(* Overlap specification: connections open while cleanupStalePresence      *)
(* runs, so the awaits of setUserOnline interleave with those of the       *)
(* cleanup, and records expire.                                            *)
(***************************************************************************)
NextOverlap ==
  \/ \E s \in PresenceSockets, u \in PresenceUsers :
       Sequential /\ Connect(s, u, "valid")
  \/ \E s \in PresenceSockets : Sequential /\ ~SweepRunning /\ Disconnect(s)
  \/ \E s \in PresenceSockets, r \in Roles : PresenceSetEx(s, r)
  \/ \E s \in PresenceSockets, r \in Roles : PresenceSetMember(s, r)
  \/ \E s \in PresenceSockets, r \in Roles :
       BusBelow(MaxPresenceQueue) /\ PresenceBroadcast(s, r)
  \/ \E u \in PresenceUsers : ExpirePresence(u)
  \/ \E i \in Instances : Deliver(i)
  \/ CleanupStalePresence
  \/ SweepMembers
  \/ \E u \in PresenceUsers : SweepExists(u)
  \/ SweepRem

SpecOverlap == Init /\ [][NextOverlap]_vars

\* C39: cleanupStalePresence never removes from the online set a user whose
\* presence record exists with status online: once the cleanup and the
\* setUserOnline calls that ran beside it have completed, every user whose
\* record has status online is in the online set.
C39_CleanupKeepsOnlineUsers ==
  (sweep.pc = "done" /\ Sequential)
  => \A u \in Users : presence[u].status = "online" => u \in onlineSet

(***************************************************************************)
(* Redemption specification: a client registers, and then refreshToken     *)
(* calls with the tokens the account was given run beside each other       *)
(* while the seconds pass.                                                 *)
(***************************************************************************)
NextRedeem ==
  \/ NoAuthCall /\ accounts = <<>> /\ Register("a1", "a@x", "pw")
  \/ RegisterFindOne("a1")
  \/ RegisterCreate("a1")
  \/ \E a \in AuthCallers, t \in KnownTokens \ {Garbage} :
       /\ \A b \in AuthCallers : acall[b].op # "register" \/ acall[b].pc = "done"
       /\ RefreshToken(a, t)
  \/ \E a \in AuthCallers : RefreshFindById(a)
  \/ \E a \in AuthCallers : AuthSave(a)
  \/ Tick

SpecRedeem == Init /\ [][NextRedeem]_vars

\* C40: a stored refresh token is redeemed at most once under any
\* interleaving: a refreshToken(t) call succeeds only for a token t that no
\* refreshToken call has redeemed before.
C40_TokenRedeemedAtMostOnce ==
  [][\A a \in AuthCallers : RefreshSucceeds(a) => acall[a].token \notin rotated]_vars
====
